---- MODULE Spec2Model ----
(***************************************************************************)
(* A model of the two programs of log_mining:                              *)
(*   log_summarizer.py         the streaming log summarizer                *)
(*   firewall_log_generator.py the synthetic firewall log generator        *)
(* Text is modelled as a sequence of one-character strings, so that the    *)
(* regular expressions, str.split, str.strip, str.lower and the f-strings  *)
(* of the source are computed character by character.                      *)
(***************************************************************************)
EXTENDS Integers, Sequences, FiniteSets, TLC

\* ------------------------------------------------------------------ bounds
\* The longest input file of the summarizer, in lines.
MaxLines == 2
\* How many times summarize_log / generate_logs is called in one behaviour.
MaxRuns == 2
\* The largest --count given to the generator.
MaxCount == 2
\* The signatures of a counter handed to the top-5 rendering, and the times
\* one signature is seen.
MaxKeys == 6
MaxSeen == 3

\* ------------------------------------------------------- Python's None
\* An optional value is a sequence of length 0 (None) or 1 (the value).
None == <<>>
Some(x) == <<x>>
IsNone(o) == o = <<>>
Val(o) == o[1]

\* ------------------------------------------------------------ characters
\* A character is a string: a printable ASCII character, "\t", "\n", "\r" and
\* "\f" are themselves, the vertical tab is VT, and the character of any other
\* code point, and the grave accent, which a TLA+ string cannot hold, is named
\* "U+" and its code point in hexadecimal ("U+00E9", "U+0060").
DigitSeq == <<"0","1","2","3","4","5","6","7","8","9">>
UpperSeq == <<"A","B","C","D","E","F","G","H","I","J","K","L","M","N","O","P","Q","R","S","T","U","V","W","X","Y","Z">>
LowerSeq == <<"a","b","c","d","e","f","g","h","i","j","k","l","m","n","o","p","q","r","s","t","u","v","w","x","y","z">>
Range(s) == {s[i] : i \in DOMAIN s}
\* The vertical tab has no escape in TLA+: it is this one model character.
VT == "\\x0b"
\* The right arrow U+2192 of the report's time span line.
Arrow == "U+2192"

\* The printable ASCII characters from the space (32) to the underscore (95)
\* and from a (97) to the tilde (126).
PrintableLow == " !\"#$%&'()*+,-./0123456789:;<=>?@ABCDEFGHIJKLMNOPQRSTUVWXYZ[\\]^_"
PrintableHigh == "abcdefghijklmnopqrstuvwxyz{|}~"
HexDigits == "0123456789ABCDEF"
\* n in hexadecimal, in at least w digits.
RECURSIVE Hex(_, _)
Hex(n, w) ==
  IF n = 0 /\ w <= 0 THEN ""
  ELSE Hex(n \div 16, w - 1) \o SubSeq(HexDigits, (n % 16) + 1, (n % 16) + 1)
\* chr(n): the character of code point n.
Chr(n) ==
  IF n \in 32..95 THEN SubSeq(PrintableLow, n - 31, n - 31)
  ELSE IF n \in 97..126 THEN SubSeq(PrintableHigh, n - 96, n - 96)
  ELSE IF n = 9 THEN "\t" ELSE IF n = 10 THEN "\n" ELSE IF n = 11 THEN VT
  ELSE IF n = 12 THEN "\f" ELSE IF n = 13 THEN "\r"
  ELSE "U+" \o Hex(n, 4)

\* The number that the characters t[i..j] of a table write in hexadecimal.
RECURSIVE HexNum(_, _, _)
HexNum(t, i, j) ==
  IF j < i THEN 0
  ELSE 16 * HexNum(t, i, j - 1)
         + (CHOOSE d \in 0..15 : SubSeq(HexDigits, d + 1, d + 1) = SubSeq(t, j, j))
\* The characters of a table of code point ranges: a sequence of strings of
\* ranges, each range 12 characters, its first and its last code point in 6
\* hexadecimal digits.
RangesIn(piece) ==
  {HexNum(piece, 12 * k + 1, 12 * k + 6)..HexNum(piece, 12 * k + 7, 12 * k + 12) :
     k \in 0..((Len(piece) \div 12) - 1)}
Chars(t) == {Chr(n) : n \in UNION (UNION {RangesIn(t[p]) : p \in DOMAIN t})}

\* The tables below are those of the Unicode database of the interpreter.
\* The characters \d of the re module on str: the decimal digits of every
\* script.
Digit ==
  Chars(<<"0000300000390006600006690006F00006F90007C00007C900096600096F0009E60009EF000A66000A6F000AE6000AEF",
    "000B66000B6F000BE6000BEF000C66000C6F000CE6000CEF000D66000D6F000DE6000DEF000E50000E59000ED0000ED9",
    "000F20000F290010400010490010900010990017E00017E900181000181900194600194F0019D00019D9001A80001A89",
    "001A90001A99001B50001B59001BB0001BB9001C40001C49001C50001C5900A62000A62900A8D000A8D900A90000A909",
    "00A9D000A9D900A9F000A9F900AA5000AA5900ABF000ABF900FF1000FF190104A00104A9010D30010D3901106601106F",
    "0110F00110F901113601113F0111D00111D90112F00112F90114500114590114D00114D90116500116590116C00116C9",
    "0117300117390118E00118E9011950011959011C50011C59011D50011D59011DA0011DA9016A60016A69016AC0016AC9",
    "016B50016B5901D7CE01D7FF01E14001E14901E2F001E2F901E95001E95901FBF001FBF9">>)
\* The characters \w of the re module on str: the alphanumerics of every
\* script and the underscore.
WordChar ==
  Chars(<<"00003000003900004100005A00005F00005F00006100007A0000AA0000AA0000B20000B30000B50000B50000B90000BA",
    "0000BC0000BE0000C00000D60000D80000F60000F80002C10002C60002D10002E00002E40002EC0002EC0002EE0002EE",
    "00037000037400037600037700037A00037D00037F00037F00038600038600038800038A00038C00038C00038E0003A1",
    "0003A30003F50003F700048100048A00052F0005310005560005590005590005600005880005D00005EA0005EF0005F2",
    "00062000064A00066000066900066E00066F0006710006D30006D50006D50006E50006E60006EE0006FC0006FF0006FF",
    "00071000071000071200072F00074D0007A50007B10007B10007C00007EA0007F40007F50007FA0007FA000800000815",
    "00081A00081A00082400082400082800082800084000085800086000086A00087000088700088900088E0008A00008C9",
    "00090400093900093D00093D00095000095000095800096100096600096F00097100098000098500098C00098F000990",
    "0009930009A80009AA0009B00009B20009B20009B60009B90009BD0009BD0009CE0009CE0009DC0009DD0009DF0009E1",
    "0009E60009F10009F40009F90009FC0009FC000A05000A0A000A0F000A10000A13000A28000A2A000A30000A32000A33",
    "000A35000A36000A38000A39000A59000A5C000A5E000A5E000A66000A6F000A72000A74000A85000A8D000A8F000A91",
    "000A93000AA8000AAA000AB0000AB2000AB3000AB5000AB9000ABD000ABD000AD0000AD0000AE0000AE1000AE6000AEF",
    "000AF9000AF9000B05000B0C000B0F000B10000B13000B28000B2A000B30000B32000B33000B35000B39000B3D000B3D",
    "000B5C000B5D000B5F000B61000B66000B6F000B71000B77000B83000B83000B85000B8A000B8E000B90000B92000B95",
    "000B99000B9A000B9C000B9C000B9E000B9F000BA3000BA4000BA8000BAA000BAE000BB9000BD0000BD0000BE6000BF2",
    "000C05000C0C000C0E000C10000C12000C28000C2A000C39000C3D000C3D000C58000C5A000C5D000C5D000C60000C61",
    "000C66000C6F000C78000C7E000C80000C80000C85000C8C000C8E000C90000C92000CA8000CAA000CB3000CB5000CB9",
    "000CBD000CBD000CDD000CDE000CE0000CE1000CE6000CEF000CF1000CF2000D04000D0C000D0E000D10000D12000D3A",
    "000D3D000D3D000D4E000D4E000D54000D56000D58000D61000D66000D78000D7A000D7F000D85000D96000D9A000DB1",
    "000DB3000DBB000DBD000DBD000DC0000DC6000DE6000DEF000E01000E30000E32000E33000E40000E46000E50000E59",
    "000E81000E82000E84000E84000E86000E8A000E8C000EA3000EA5000EA5000EA7000EB0000EB2000EB3000EBD000EBD",
    "000EC0000EC4000EC6000EC6000ED0000ED9000EDC000EDF000F00000F00000F20000F33000F40000F47000F49000F6C",
    "000F88000F8C00100000102A00103F00104900105000105500105A00105D00106100106100106500106600106E001070",
    "00107500108100108E00108E0010900010990010A00010C50010C70010C70010CD0010CD0010D00010FA0010FC001248",
    "00124A00124D00125000125600125800125800125A00125D00126000128800128A00128D0012900012B00012B20012B5",
    "0012B80012BE0012C00012C00012C20012C50012C80012D60012D800131000131200131500131800135A00136900137C",
    "00138000138F0013A00013F50013F80013FD00140100166C00166F00167F00168100169A0016A00016EA0016EE0016F8",
    "00170000171100171F00173100174000175100176000176C00176E0017700017800017B30017D70017D70017DC0017DC",
    "0017E00017E90017F00017F90018100018190018200018780018800018840018870018A80018AA0018AA0018B00018F5",
    "00190000191E00194600196D0019700019740019800019AB0019B00019C90019D00019DA001A00001A16001A20001A54",
    "001A80001A89001A90001A99001AA7001AA7001B05001B33001B45001B4C001B50001B59001B83001BA0001BAE001BE5",
    "001C00001C23001C40001C49001C4D001C7D001C80001C88001C90001CBA001CBD001CBF001CE9001CEC001CEE001CF3",
    "001CF5001CF6001CFA001CFA001D00001DBF001E00001F15001F18001F1D001F20001F45001F48001F4D001F50001F57",
    "001F59001F59001F5B001F5B001F5D001F5D001F5F001F7D001F80001FB4001FB6001FBC001FBE001FBE001FC2001FC4",
    "001FC6001FCC001FD0001FD3001FD6001FDB001FE0001FEC001FF2001FF4001FF6001FFC002070002071002074002079",
    "00207F00208900209000209C00210200210200210700210700210A00211300211500211500211900211D002124002124",
    "00212600212600212800212800212A00212D00212F00213900213C00213F00214500214900214E00214E002150002189",
    "00246000249B0024EA0024FF002776002793002C00002CE4002CEB002CEE002CF2002CF3002CFD002CFD002D00002D25",
    "002D27002D27002D2D002D2D002D30002D67002D6F002D6F002D80002D96002DA0002DA6002DA8002DAE002DB0002DB6",
    "002DB8002DBE002DC0002DC6002DC8002DCE002DD0002DD6002DD8002DDE002E2F002E2F003005003007003021003029",
    "00303100303500303800303C00304100309600309D00309F0030A10030FA0030FC0030FF00310500312F00313100318E",
    "0031920031950031A00031BF0031F00031FF00322000322900324800324F00325100325F0032800032890032B10032BF",
    "003400004DBF004E0000A48C00A4D000A4FD00A50000A60C00A61000A62B00A64000A66E00A67F00A69D00A6A000A6EF",
    "00A71700A71F00A72200A78800A78B00A7CA00A7D000A7D100A7D300A7D300A7D500A7D900A7F200A80100A80300A805",
    "00A80700A80A00A80C00A82200A83000A83500A84000A87300A88200A8B300A8D000A8D900A8F200A8F700A8FB00A8FB",
    "00A8FD00A8FE00A90000A92500A93000A94600A96000A97C00A98400A9B200A9CF00A9D900A9E000A9E400A9E600A9FE",
    "00AA0000AA2800AA4000AA4200AA4400AA4B00AA5000AA5900AA6000AA7600AA7A00AA7A00AA7E00AAAF00AAB100AAB1",
    "00AAB500AAB600AAB900AABD00AAC000AAC000AAC200AAC200AADB00AADD00AAE000AAEA00AAF200AAF400AB0100AB06",
    "00AB0900AB0E00AB1100AB1600AB2000AB2600AB2800AB2E00AB3000AB5A00AB5C00AB6900AB7000ABE200ABF000ABF9",
    "00AC0000D7A300D7B000D7C600D7CB00D7FB00F90000FA6D00FA7000FAD900FB0000FB0600FB1300FB1700FB1D00FB1D",
    "00FB1F00FB2800FB2A00FB3600FB3800FB3C00FB3E00FB3E00FB4000FB4100FB4300FB4400FB4600FBB100FBD300FD3D",
    "00FD5000FD8F00FD9200FDC700FDF000FDFB00FE7000FE7400FE7600FEFC00FF1000FF1900FF2100FF3A00FF4100FF5A",
    "00FF6600FFBE00FFC200FFC700FFCA00FFCF00FFD200FFD700FFDA00FFDC01000001000B01000D01002601002801003A",
    "01003C01003D01003F01004D01005001005D0100800100FA01010701013301014001017801018A01018B01028001029C",
    "0102A00102D00102E10102FB01030001032301032D01034A01035001037501038001039D0103A00103C30103C80103CF",
    "0103D10103D501040001049D0104A00104A90104B00104D30104D80104FB01050001052701053001056301057001057A",
    "01057C01058A01058C0105920105940105950105970105A10105A30105B10105B30105B90105BB0105BC010600010736",
    "0107400107550107600107670107800107850107870107B00107B20107BA01080001080501080801080801080A010835",
    "01083701083801083C01083C01083F01085501085801087601087901089E0108A70108AF0108E00108F20108F40108F5",
    "0108FB01091B0109200109390109800109B70109BC0109CF0109D2010A00010A10010A13010A15010A17010A19010A35",
    "010A40010A48010A60010A7E010A80010A9F010AC0010AC7010AC9010AE4010AEB010AEF010B00010B35010B40010B55",
    "010B58010B72010B78010B91010BA9010BAF010C00010C48010C80010CB2010CC0010CF2010CFA010D23010D30010D39",
    "010E60010E7E010E80010EA9010EB0010EB1010F00010F27010F30010F45010F51010F54010F70010F81010FB0010FCB",
    "010FE0010FF601100301103701105201106F0110710110720110750110750110830110AF0110D00110E80110F00110F9",
    "01110301112601113601113F0111440111440111470111470111500111720111760111760111830111B20111C10111C4",
    "0111D00111DA0111DC0111DC0111E10111F401120001121101121301122B01128001128601128801128801128A01128D",
    "01128F01129D01129F0112A80112B00112DE0112F00112F901130501130C01130F01131001131301132801132A011330",
    "01133201133301133501133901133D01133D01135001135001135D01136101140001143401144701144A011450011459",
    "01145F0114610114800114AF0114C40114C50114C70114C70114D00114D90115800115AE0115D80115DB01160001162F",
    "0116440116440116500116590116800116AA0116B80116B80116C00116C901170001171A01173001173B011740011746",
    "01180001182B0118A00118F20118FF01190601190901190901190C01191301191501191601191801192F01193F01193F",
    "0119410119410119500119590119A00119A70119AA0119D00119E10119E10119E30119E3011A00011A00011A0B011A32",
    "011A3A011A3A011A50011A50011A5C011A89011A9D011A9D011AB0011AF8011C00011C08011C0A011C2E011C40011C40",
    "011C50011C6C011C72011C8F011D00011D06011D08011D09011D0B011D30011D46011D46011D50011D59011D60011D65",
    "011D67011D68011D6A011D89011D98011D98011DA0011DA9011EE0011EF2011FB0011FB0011FC0011FD4012000012399",
    "01240001246E012480012543012F90012FF001300001342E014400014646016800016A38016A40016A5E016A60016A69",
    "016A70016ABE016AC0016AC9016AD0016AED016B00016B2F016B40016B43016B50016B59016B5B016B61016B63016B77",
    "016B7D016B8F016E40016E96016F00016F4A016F50016F50016F93016F9F016FE0016FE1016FE3016FE30170000187F7",
    "018800018CD5018D00018D0801AFF001AFF301AFF501AFFB01AFFD01AFFE01B00001B12201B15001B15201B16401B167",
    "01B17001B2FB01BC0001BC6A01BC7001BC7C01BC8001BC8801BC9001BC9901D2E001D2F301D36001D37801D40001D454",
    "01D45601D49C01D49E01D49F01D4A201D4A201D4A501D4A601D4A901D4AC01D4AE01D4B901D4BB01D4BB01D4BD01D4C3",
    "01D4C501D50501D50701D50A01D50D01D51401D51601D51C01D51E01D53901D53B01D53E01D54001D54401D54601D546",
    "01D54A01D55001D55201D6A501D6A801D6C001D6C201D6DA01D6DC01D6FA01D6FC01D71401D71601D73401D73601D74E",
    "01D75001D76E01D77001D78801D78A01D7A801D7AA01D7C201D7C401D7CB01D7CE01D7FF01DF0001DF1E01E10001E12C",
    "01E13701E13D01E14001E14901E14E01E14E01E29001E2AD01E2C001E2EB01E2F001E2F901E7E001E7E601E7E801E7EB",
    "01E7ED01E7EE01E7F001E7FE01E80001E8C401E8C701E8CF01E90001E94301E94B01E94B01E95001E95901EC7101ECAB",
    "01ECAD01ECAF01ECB101ECB401ED0101ED2D01ED2F01ED3D01EE0001EE0301EE0501EE1F01EE2101EE2201EE2401EE24",
    "01EE2701EE2701EE2901EE3201EE3401EE3701EE3901EE3901EE3B01EE3B01EE4201EE4201EE4701EE4701EE4901EE49",
    "01EE4B01EE4B01EE4D01EE4F01EE5101EE5201EE5401EE5401EE5701EE5701EE5901EE5901EE5B01EE5B01EE5D01EE5D",
    "01EE5F01EE5F01EE6101EE6201EE6401EE6401EE6701EE6A01EE6C01EE7201EE7401EE7701EE7901EE7C01EE7E01EE7E",
    "01EE8001EE8901EE8B01EE9B01EEA101EEA301EEA501EEA901EEAB01EEBB01F10001F10C01FBF001FBF902000002A6DF",
    "02A70002B73802B74002B81D02B82002CEA102CEB002EBE002F80002FA1D03000003134A">>)
\* The characters str.split() and str.strip() treat as whitespace.
WhiteSpace ==
  Chars(<<"00000900000D00001C0000200000850000850000A00000A000168000168000200000200A00202800202900202F00202F",
    "00205F00205F003000003000">>)

DigitVal(c) == (CHOOSE i \in DOMAIN DigitSeq : DigitSeq[i] = c) - 1

\* The characters outside A-Z that str.lower() changes into one other
\* character, each with that character: the code points first, first + step,
\* ... last of a run become themselves + delta.
LowerRuns ==
  <<"0000C00000D61+0000200000D80000DE1+00002000010000012E2+0000010001320001362+0000010001390001472+000001",
    "00014A0001762+0000010001780001781-00007900017900017D2+0000010001810001811+0000D20001820001842+000001",
    "0001860001861+0000CE0001870001871+00000100018900018A1+0000CD00018B00018B1+00000100018E00018E1+00004F",
    "00018F00018F1+0000CA0001900001901+0000CB0001910001911+0000010001930001931+0000CD0001940001941+0000CF",
    "0001960001961+0000D30001970001971+0000D10001980001981+00000100019C00019C1+0000D300019D00019D1+0000D5",
    "00019F00019F1+0000D60001A00001A42+0000010001A60001A61+0000DA0001A70001A71+0000010001A90001A91+0000DA",
    "0001AC0001AC1+0000010001AE0001AE1+0000DA0001AF0001AF1+0000010001B10001B21+0000D90001B30001B52+000001",
    "0001B70001B71+0000DB0001B80001B81+0000010001BC0001BC1+0000010001C40001C41+0000020001C50001C51+000001",
    "0001C70001C71+0000020001C80001C81+0000010001CA0001CA1+0000020001CB0001DB2+0000010001DE0001EE2+000001",
    "0001F10001F11+0000020001F20001F42+0000010001F60001F61-0000610001F70001F71-0000380001F800021E2+000001",
    "0002200002201-0000820002220002322+00000100023A00023A1+002A2B00023B00023B1+00000100023D00023D1-0000A3",
    "00023E00023E1+002A280002410002411+0000010002430002431-0000C30002440002441+0000450002450002451+000047",
    "00024600024E2+0000010003700003722+0000010003760003761+00000100037F00037F1+0000740003860003861+000026",
    "00038800038A1+00002500038C00038C1+00004000038E00038F1+00003F0003910003A11+0000200003A30003AB1+000020",
    "0003CF0003CF1+0000080003D80003EE2+0000010003F40003F41-00003C0003F70003F71+0000010003F90003F91-000007",
    "0003FA0003FA1+0000010003FD0003FF1-00008200040000040F1+00005000041000042F1+0000200004600004802+000001",
    "00048A0004BE2+0000010004C00004C01+00000F0004C10004CD2+0000010004D000052E2+0000010005310005561+000030",
    "0010A00010C51+001C600010C70010C71+001C600010CD0010CD1+001C600013A00013EF1+0097D00013F00013F51+000008",
    "001C90001CBA1-000BC0001CBD001CBF1-000BC0001E00001E942+000001001E9E001E9E1-001DBF001EA0001EFE2+000001",
    "001F08001F0F1-000008001F18001F1D1-000008001F28001F2F1-000008001F38001F3F1-000008001F48001F4D1-000008",
    "001F59001F5F2-000008001F68001F6F1-000008001F88001F8F1-000008001F98001F9F1-000008001FA8001FAF1-000008",
    "001FB8001FB91-000008001FBA001FBB1-00004A001FBC001FBC1-000009001FC8001FCB1-000056001FCC001FCC1-000009",
    "001FD8001FD91-000008001FDA001FDB1-000064001FE8001FE91-000008001FEA001FEB1-000070001FEC001FEC1-000007",
    "001FF8001FF91-000080001FFA001FFB1-00007E001FFC001FFC1-0000090021260021261-001D5D00212A00212A1-0020BF",
    "00212B00212B1-0020460021320021321+00001C00216000216F1+0000100021830021831+0000010024B60024CF1+00001A",
    "002C00002C2F1+000030002C60002C601+000001002C62002C621-0029F7002C63002C631-000EE6002C64002C641-0029E7",
    "002C67002C6B2+000001002C6D002C6D1-002A1C002C6E002C6E1-0029FD002C6F002C6F1-002A1F002C70002C701-002A1E",
    "002C72002C721+000001002C75002C751+000001002C7E002C7F1-002A3F002C80002CE22+000001002CEB002CED2+000001",
    "002CF2002CF21+00000100A64000A66C2+00000100A68000A69A2+00000100A72200A72E2+00000100A73200A76E2+000001",
    "00A77900A77B2+00000100A77D00A77D1-008A0400A77E00A7862+00000100A78B00A78B1+00000100A78D00A78D1-00A528",
    "00A79000A7922+00000100A79600A7A82+00000100A7AA00A7AA1-00A54400A7AB00A7AB1-00A54F00A7AC00A7AC1-00A54B",
    "00A7AD00A7AD1-00A54100A7AE00A7AE1-00A54400A7B000A7B01-00A51200A7B100A7B11-00A52A00A7B200A7B21-00A515",
    "00A7B300A7B31+0003A000A7B400A7C22+00000100A7C400A7C41-00003000A7C500A7C51-00A54300A7C600A7C61-008A38",
    "00A7C700A7C92+00000100A7D000A7D01+00000100A7D600A7D82+00000100A7F500A7F51+00000100FF2100FF3A1+000020",
    "0104000104271+0000280104B00104D31+00002801057001057A1+00002701057C01058A1+00002701058C0105921+000027",
    "0105940105951+000027010C80010CB21+0000400118A00118BF1+000020016E40016E5F1+00002001E90001E9211+000022">>
\* The pairs of a table of runs: each run is 20 characters, first and last (6
\* hexadecimal digits each), step (1 digit), and the sign and the 6 digits of
\* delta.
RunsIn(piece) ==
  {LET first == HexNum(piece, 20 * r + 1, 20 * r + 6)
       last  == HexNum(piece, 20 * r + 7, 20 * r + 12)
       step  == HexNum(piece, 20 * r + 13, 20 * r + 13)
       delta == HexNum(piece, 20 * r + 15, 20 * r + 20)
                  * (IF SubSeq(piece, 20 * r + 14, 20 * r + 14) = "-" THEN -1 ELSE 1)
   IN  {<<first + k * step, delta>> : k \in 0..((last - first) \div step)} :
   r \in 0..((Len(piece) \div 20) - 1)}
LowerPairs ==
  {<<Chr(u[1]), Chr(u[1] + u[2])>> :
     u \in UNION (UNION {RunsIn(LowerRuns[p]) : p \in DOMAIN LowerRuns})}
UpperRest == {p[1] : p \in LowerPairs}

\* str.lower() of a string of one character.
LowerChar(c) ==
  IF c \in Range(UpperSeq)
  THEN <<LowerSeq[CHOOSE i \in DOMAIN UpperSeq : UpperSeq[i] = c]>>
  ELSE IF c \in UpperRest
  THEN <<(CHOOSE p \in LowerPairs : p[1] = c)[2]>>
  ELSE IF c = "U+0130" THEN <<"i", "U+0307">>
  ELSE <<c>>

\* The cased characters that are not case-ignorable, and the case-ignorable
\* characters: the two classes str.lower() looks at around a capital sigma.
Cased ==
  Chars(<<"00004100005A00006100007A0000AA0000AA0000B50000B50000BA0000BA0000C00000D60000D80000F60000F80001BA",
    "0001BC0001BF0001C40002930002950002AF00037000037300037600037700037B00037D00037F00037F000386000386",
    "00038800038A00038C00038C00038E0003A10003A30003F50003F700048100048A00052F000531000556000560000588",
    "0010A00010C50010C70010C70010CD0010CD0010D00010FA0010FD0010FF0013A00013F50013F80013FD001C80001C88",
    "001C90001CBA001CBD001CBF001D00001D2B001D6B001D77001D79001D9A001E00001F15001F18001F1D001F20001F45",
    "001F48001F4D001F50001F57001F59001F59001F5B001F5B001F5D001F5D001F5F001F7D001F80001FB4001FB6001FBC",
    "001FBE001FBE001FC2001FC4001FC6001FCC001FD0001FD3001FD6001FDB001FE0001FEC001FF2001FF4001FF6001FFC",
    "00210200210200210700210700210A00211300211500211500211900211D002124002124002126002126002128002128",
    "00212A00212D00212F00213400213900213900213C00213F00214500214900214E00214E00216000217F002183002184",
    "0024B60024E9002C00002C7B002C7E002CE4002CEB002CEE002CF2002CF3002D00002D25002D27002D27002D2D002D2D",
    "00A64000A66D00A68000A69B00A72200A76F00A77100A78700A78B00A78E00A79000A7CA00A7D000A7D100A7D300A7D3",
    "00A7D500A7D900A7F500A7F600A7FA00A7FA00AB3000AB5A00AB6000AB6800AB7000ABBF00FB0000FB0600FB1300FB17",
    "00FF2100FF3A00FF4100FF5A01040001044F0104B00104D30104D80104FB01057001057A01057C01058A01058C010592",
    "0105940105950105970105A10105A30105B10105B30105B90105BB0105BC010C80010CB2010CC0010CF20118A00118DF",
    "016E40016E7F01D40001D45401D45601D49C01D49E01D49F01D4A201D4A201D4A501D4A601D4A901D4AC01D4AE01D4B9",
    "01D4BB01D4BB01D4BD01D4C301D4C501D50501D50701D50A01D50D01D51401D51601D51C01D51E01D53901D53B01D53E",
    "01D54001D54401D54601D54601D54A01D55001D55201D6A501D6A801D6C001D6C201D6DA01D6DC01D6FA01D6FC01D714",
    "01D71601D73401D73601D74E01D75001D76E01D77001D78801D78A01D7A801D7AA01D7C201D7C401D7CB01DF0001DF09",
    "01DF0B01DF1E01E90001E94301F13001F14901F15001F16901F17001F189">>)
CaseIgnorable ==
  Chars(<<"00002700002700002E00002E00003A00003A00005E00005E0000600000600000A80000A80000AD0000AD0000AF0000AF",
    "0000B40000B40000B70000B80002B000036F00037400037500037A00037A000384000385000387000387000483000489",
    "00055900055900055F00055F0005910005BD0005BF0005BF0005C10005C20005C40005C50005C70005C70005F40005F4",
    "00060000060500061000061A00061C00061C00064000064000064B00065F0006700006700006D60006DD0006DF0006E8",
    "0006EA0006ED00070F00070F00071100071100073000074A0007A60007B00007EB0007F50007FA0007FA0007FD0007FD",
    "00081600082D00085900085B00088800088800089000089100089800089F0008C900090200093A00093A00093C00093C",
    "00094100094800094D00094D0009510009570009620009630009710009710009810009810009BC0009BC0009C10009C4",
    "0009CD0009CD0009E20009E30009FE0009FE000A01000A02000A3C000A3C000A41000A42000A47000A48000A4B000A4D",
    "000A51000A51000A70000A71000A75000A75000A81000A82000ABC000ABC000AC1000AC5000AC7000AC8000ACD000ACD",
    "000AE2000AE3000AFA000AFF000B01000B01000B3C000B3C000B3F000B3F000B41000B44000B4D000B4D000B55000B56",
    "000B62000B63000B82000B82000BC0000BC0000BCD000BCD000C00000C00000C04000C04000C3C000C3C000C3E000C40",
    "000C46000C48000C4A000C4D000C55000C56000C62000C63000C81000C81000CBC000CBC000CBF000CBF000CC6000CC6",
    "000CCC000CCD000CE2000CE3000D00000D01000D3B000D3C000D41000D44000D4D000D4D000D62000D63000D81000D81",
    "000DCA000DCA000DD2000DD4000DD6000DD6000E31000E31000E34000E3A000E46000E4E000EB1000EB1000EB4000EBC",
    "000EC6000EC6000EC8000ECD000F18000F19000F35000F35000F37000F37000F39000F39000F71000F7E000F80000F84",
    "000F86000F87000F8D000F97000F99000FBC000FC6000FC600102D00103000103200103700103900103A00103D00103E",
    "00105800105900105E00106000107100107400108200108200108500108600108D00108D00109D00109D0010FC0010FC",
    "00135D00135F0017120017140017320017330017520017530017720017730017B40017B50017B70017BD0017C60017C6",
    "0017C90017D30017D70017D70017DD0017DD00180B00180F0018430018430018850018860018A90018A9001920001922",
    "00192700192800193200193200193900193B001A17001A18001A1B001A1B001A56001A56001A58001A5E001A60001A60",
    "001A62001A62001A65001A6C001A73001A7C001A7F001A7F001AA7001AA7001AB0001ACE001B00001B03001B34001B34",
    "001B36001B3A001B3C001B3C001B42001B42001B6B001B73001B80001B81001BA2001BA5001BA8001BA9001BAB001BAD",
    "001BE6001BE6001BE8001BE9001BED001BED001BEF001BF1001C2C001C33001C36001C37001C78001C7D001CD0001CD2",
    "001CD4001CE0001CE2001CE8001CED001CED001CF4001CF4001CF8001CF9001D2C001D6A001D78001D78001D9B001DFF",
    "001FBD001FBD001FBF001FC1001FCD001FCF001FDD001FDF001FED001FEF001FFD001FFE00200B00200F002018002019",
    "00202400202400202700202700202A00202E00206000206400206600206F00207100207100207F00207F00209000209C",
    "0020D00020F0002C7C002C7D002CEF002CF1002D6F002D6F002D7F002D7F002DE0002DFF002E2F002E2F003005003005",
    "00302A00302D00303100303500303B00303B00309900309E0030FC0030FE00A01500A01500A4F800A4FD00A60C00A60C",
    "00A66F00A67200A67400A67D00A67F00A67F00A69C00A69F00A6F000A6F100A70000A72100A77000A77000A78800A78A",
    "00A7F200A7F400A7F800A7F900A80200A80200A80600A80600A80B00A80B00A82500A82600A82C00A82C00A8C400A8C5",
    "00A8E000A8F100A8FF00A8FF00A92600A92D00A94700A95100A98000A98200A9B300A9B300A9B600A9B900A9BC00A9BD",
    "00A9CF00A9CF00A9E500A9E600AA2900AA2E00AA3100AA3200AA3500AA3600AA4300AA4300AA4C00AA4C00AA7000AA70",
    "00AA7C00AA7C00AAB000AAB000AAB200AAB400AAB700AAB800AABE00AABF00AAC100AAC100AADD00AADD00AAEC00AAED",
    "00AAF300AAF400AAF600AAF600AB5B00AB5F00AB6900AB6B00ABE500ABE500ABE800ABE800ABED00ABED00FB1E00FB1E",
    "00FBB200FBC200FE0000FE0F00FE1300FE1300FE2000FE2F00FE5200FE5200FE5500FE5500FEFF00FEFF00FF0700FF07",
    "00FF0E00FF0E00FF1A00FF1A00FF3E00FF3E00FF4000FF4000FF7000FF7000FF9E00FF9F00FFE300FFE300FFF900FFFB",
    "0101FD0101FD0102E00102E001037601037A0107800107850107870107B00107B20107BA010A01010A03010A05010A06",
    "010A0C010A0F010A38010A3A010A3F010A3F010AE5010AE6010D24010D27010EAB010EAC010F46010F50010F82010F85",
    "01100101100101103801104601107001107001107301107401107F0110810110B30110B60110B90110BA0110BD0110BD",
    "0110C20110C20110CD0110CD01110001110201112701112B01112D0111340111730111730111800111810111B60111BE",
    "0111C90111CC0111CF0111CF01122F01123101123401123401123601123701123E01123E0112DF0112DF0112E30112EA",
    "01130001130101133B01133C01134001134001136601136C01137001137401143801143F011442011444011446011446",
    "01145E01145E0114B30114B80114BA0114BA0114BF0114C00114C20114C30115B20115B50115BC0115BD0115BF0115C0",
    "0115DC0115DD01163301163A01163D01163D01163F0116400116AB0116AB0116AD0116AD0116B00116B50116B70116B7",
    "01171D01171F01172201172501172701172B01182F01183701183901183A01193B01193C01193E01193E011943011943",
    "0119D40119D70119DA0119DB0119E00119E0011A01011A0A011A33011A38011A3B011A3E011A47011A47011A51011A56",
    "011A59011A5B011A8A011A96011A98011A99011C30011C36011C38011C3D011C3F011C3F011C92011CA7011CAA011CB0",
    "011CB2011CB3011CB5011CB6011D31011D36011D3A011D3A011D3C011D3D011D3F011D45011D47011D47011D90011D91",
    "011D95011D95011D97011D97011EF3011EF4013430013438016AF0016AF4016B30016B36016B40016B43016F4F016F4F",
    "016F8F016F9F016FE0016FE1016FE3016FE401AFF001AFF301AFF501AFFB01AFFD01AFFE01BC9D01BC9E01BCA001BCA3",
    "01CF0001CF2D01CF3001CF4601D16701D16901D17301D18201D18501D18B01D1AA01D1AD01D24201D24401DA0001DA36",
    "01DA3B01DA6C01DA7501DA7501DA8401DA8401DA9B01DA9F01DAA101DAAF01E00001E00601E00801E01801E01B01E021",
    "01E02301E02401E02601E02A01E13001E13D01E2AE01E2AE01E2EC01E2EF01E8D001E8D601E94401E94B01F3FB01F3FF",
    "0E00010E00010E00200E007F0E01000E01EF">>)

\* The capital sigma s[i] is final: the nearest character before it that is
\* not case-ignorable is cased, and the nearest one after it, if any, is not.
FinalSigma(s, i) ==
  LET before == {j \in 1..(i - 1) : s[j] \notin CaseIgnorable}
      after  == {j \in (i + 1)..Len(s) : s[j] \notin CaseIgnorable}
  IN  /\ before # {}
      /\ s[CHOOSE j \in before : \A k \in before : k <= j] \in Cased
      /\ \/ after = {}
         \/ s[CHOOSE j \in after : \A k \in after : j <= k] \notin Cased

\* str.lower() of the character s[i] of s.
LowerAt(s, i) ==
  IF s[i] = "U+03A3" /\ FinalSigma(s, i) THEN <<"U+03C2">> ELSE LowerChar(s[i])

\* str.lower(): character by character, unless a character becomes two.
RECURSIVE LowerFrom(_, _)
LowerFrom(s, i) == IF i > Len(s) THEN <<>> ELSE LowerAt(s, i) \o LowerFrom(s, i + 1)
StrLower(s) ==
  IF \A i \in DOMAIN s : s[i] # "U+0130"
  THEN [i \in DOMAIN s |-> LowerAt(s, i)[1]]
  ELSE LowerFrom(s, 1)

\* s[i:j] of Python with 0 <= i, in TLA+'s 1-based SubSeq: characters i+1..j.
Slice(s, i, j) ==
  LET hi == IF j > Len(s) THEN Len(s) ELSE j
  IN  IF i >= hi THEN <<>> ELSE SubSeq(s, i + 1, hi)

\* sub in s
Contains(s, sub) ==
  \E i \in 0..(Len(s) - Len(sub)) : Slice(s, i, i + Len(sub)) = sub

\* str.strip()
RECURSIVE LStrip(_)
LStrip(s) == IF s # <<>> /\ Head(s) \in WhiteSpace THEN LStrip(Tail(s)) ELSE s
RECURSIVE RStrip(_)
RStrip(s) ==
  IF s # <<>> /\ s[Len(s)] \in WhiteSpace THEN RStrip(SubSeq(s, 1, Len(s) - 1)) ELSE s
Strip(s) == RStrip(LStrip(s))

\* str.split(): the maximal runs of non-whitespace characters, in order.
RECURSIVE SplitFrom(_, _, _)
SplitFrom(s, cur, acc) ==
  IF s = <<>>
  THEN IF cur = <<>> THEN acc ELSE Append(acc, cur)
  ELSE IF Head(s) \in WhiteSpace
       THEN SplitFrom(Tail(s), <<>>, IF cur = <<>> THEN acc ELSE Append(acc, cur))
       ELSE SplitFrom(Tail(s), Append(cur, Head(s)), acc)
Split(s) == SplitFrom(s, <<>>, <<>>)

\* sep.join(parts)
RECURSIVE Join(_, _)
Join(sep, parts) ==
  IF parts = <<>> THEN <<>>
  ELSE IF Len(parts) = 1 THEN parts[1]
  ELSE parts[1] \o sep \o Join(sep, Tail(parts))

\* str(n) of a natural number.
RECURSIVE IntToStr(_)
IntToStr(n) ==
  IF n < 10 THEN <<DigitSeq[n + 1]>>
  ELSE Append(IntToStr(n \div 10), DigitSeq[(n % 10) + 1])

\* int(s) of a string of digits.
RECURSIVE StrToInt(_)
StrToInt(s) ==
  IF s = <<>> THEN 0
  ELSE 10 * StrToInt(SubSeq(s, 1, Len(s) - 1)) + DigitVal(s[Len(s)])

\* "%0<w>d" % n
RECURSIVE ZeroPad(_, _)
ZeroPad(s, w) == IF Len(s) >= w THEN s ELSE ZeroPad(<<"0">> \o s, w)

\* \b of the re module at the gap before s[i] (i in 1..Len(s)+1).
WordBoundary(s, i) ==
  LET before == i > 1 /\ s[i - 1] \in WordChar
      after  == i <= Len(s) /\ s[i] \in WordChar
  IN  before # after

\* ================================================== log_summarizer.py
\* ----------------------------------------------------- TIMESTAMP_PATTERN
\* \d{4}-\d{2}-\d{2}[ T]\d{2}:\d{2}:\d{2} matched at s[i..i+18].
TimestampShape(s, i) ==
  /\ i + 18 <= Len(s)
  /\ \A k \in {0, 1, 2, 3, 5, 6, 8, 9, 11, 12, 14, 15, 17, 18} : s[i + k] \in Digit
  /\ s[i + 4] = "-" /\ s[i + 7] = "-"
  /\ s[i + 10] \in {" ", "T"}
  /\ s[i + 13] = ":" /\ s[i + 16] = ":"

\* The whole pattern, with its two \b, matched at s[i..i+18].
TimestampAt(s, i) ==
  /\ TimestampShape(s, i)
  /\ WordBoundary(s, i)
  /\ WordBoundary(s, i + 19)

\* TIMESTAMP_PATTERN.search(line): group(1) of the leftmost match, or None.
TimestampSearch(line) ==
  LET hits == {i \in 1..Len(line) : TimestampAt(line, i)}
  IN  IF hits = {} THEN None
      ELSE LET i == CHOOSE j \in hits : \A k \in hits : j <= k
           IN  Some(SubSeq(line, i, i + 18))

\* --------------------------------------------------------- LEVEL_PATTERN
\* The alternatives of LEVEL_PATTERN, in the order the pattern tries them.
LEVELS == <<<<"I","N","F","O">>, <<"W","A","R","N">>, <<"W","A","R","N","I","N","G">>, <<"E","R","R","O","R">>, <<"D","E","B","U","G">>, <<"C","R","I","T","I","C","A","L">>>>
UNKNOWN == <<"U","N","K","N","O","W","N">>

\* \b<w>\b matched at s[i..].
LevelAt(s, i, w) ==
  /\ i + Len(w) - 1 <= Len(s)
  /\ SubSeq(s, i, i + Len(w) - 1) = w
  /\ WordBoundary(s, i)
  /\ WordBoundary(s, i + Len(w))

\* LEVEL_PATTERN.search(line): the leftmost match, the first alternative
\* that matches there; None without a match.
LevelSearch(line) ==
  LET hits == {i \in 1..Len(line) : \E a \in DOMAIN LEVELS : LevelAt(line, i, LEVELS[a])}
  IN  IF hits = {} THEN None
      ELSE LET i == CHOOSE j \in hits : \A k \in hits : j <= k
               a == CHOOSE b \in DOMAIN LEVELS :
                      /\ LevelAt(line, i, LEVELS[b])
                      /\ \A c \in 1..(b - 1) : ~LevelAt(line, i, LEVELS[c])
           IN  Some(LEVELS[a])

\* parse_log_line(line) -> (timestamp, level, message)
parse_log_line(line) ==
  LET ts_match    == TimestampSearch(line)
      level_match == LevelSearch(line)
  IN  [timestamp |-> ts_match,
       level     |-> IF IsNone(level_match) THEN UNKNOWN ELSE Val(level_match),
       message   |-> Strip(line)]

\* ------------------------------------------------ the summarizer's inputs
\* The lines an input file is made of, each with its line feed.
LnA == <<"2","0","2","5","-","1","0","-","2","0","T","1","0",":","0","0",":","0","0"," ","E","R","R","O","R"," ","D","b"," ","a"," ","b"," ","c"," ","d"," ","e"," ","g","\n">>
LnB == <<"2","0","2","5","-","1","0","-","2","2","T","0","9",":","3","0",":","0","0"," ","E","R","R","O","R"," ","D","b"," ","a"," ","b"," ","c"," ","d"," ","e"," ","h","\n">>
LnD == <<"C","R","I","T","I","C","A","L","\n">>
LnE == <<"2","0","2","5","-","1","3","-","0","1"," ","1","0",":","0","0",":","0","0"," ","E","R","R","O","R"," ","x","\n">>
LnF == <<"p","l","a","i","n"," ","t","e","x","t","\n">>
LnG == <<" ","2","0","2","5","-","1","0","-","1","9"," ","0","8",":","0","0",":","0","0"," ","W","A","R","N","I","N","G"," ","d","b"," ","s","l","o","w","\n">>
LnH == <<"I","N","F","O"," ","r","e","t","r","y"," ","a","f","t","e","r"," ","E","R","R","O","R"," ","D","b","\n">>
LnI == <<"2","0","2","5","-","1","0","-","1","9"," ","2","3",":","5","9",":","5","9"," ","C","R","I","T","I","C","A","L"," ","D","b"," ","d","o","w","n","\n">>
InputLines == {LnA, LnB, LnD, LnE, LnF, LnG, LnH, LnI}
InputFiles == UNION {[1..n -> InputLines] : n \in 0..MaxLines}

\* A longer file: six ERROR lines of six signatures, then the first line again.
LongFile ==
  <<<<"2","0","2","5","-","1","0","-","2","0"," ","1","0",":","0","0",":","0","1"," ","E","R","R","O","R"," ","D","b"," ","f","a","i","l"," ","1","\n">>, <<"2","0","2","5","-","1","0","-","2","0"," ","1","0",":","0","0",":","0","2"," ","E","R","R","O","R"," ","D","b"," ","f","a","i","l"," ","2","\n">>,
    <<"2","0","2","5","-","1","0","-","2","0"," ","1","0",":","0","0",":","0","3"," ","E","R","R","O","R"," ","D","b"," ","f","a","i","l"," ","3","\n">>, <<"2","0","2","5","-","1","0","-","2","0"," ","1","0",":","0","0",":","0","4"," ","E","R","R","O","R"," ","D","b"," ","f","a","i","l"," ","4","\n">>,
    <<"2","0","2","5","-","1","0","-","2","0"," ","1","0",":","0","0",":","0","5"," ","E","R","R","O","R"," ","D","b"," ","f","a","i","l"," ","5","\n">>, <<"2","0","2","5","-","1","0","-","2","0"," ","1","0",":","0","0",":","0","6"," ","E","R","R","O","R"," ","D","b"," ","f","a","i","l"," ","6","\n">>,
    <<"2","0","2","5","-","1","0","-","2","0"," ","1","0",":","0","0",":","0","1"," ","E","R","R","O","R"," ","D","b"," ","f","a","i","l"," ","1","\n">>>>
LongFiles == {LongFile, SubSeq(LongFile, 1, 6), SubSeq(LongFile, 2, 7)}

\* parse_log_line on the input lines, computed once for each.
ParsedLines == [l \in InputLines \cup Range(LongFile) |-> parse_log_line(l)]
Parsed(line) == IF line \in DOMAIN ParsedLines THEN ParsedLines[line] ELSE parse_log_line(line)

\* -------------------------------------------------------------- datetime
IsLeap(y) == (y % 4 = 0 /\ y % 100 # 0) \/ y % 400 = 0
DaysInMonth(y, m) ==
  IF m = 2 THEN (IF IsLeap(y) THEN 29 ELSE 28)
  ELSE IF m \in {4, 6, 9, 11} THEN 30 ELSE 31

\* The fields datetime.fromisoformat reads from "YYYY-MM-DD HH:MM:SS".
IsoFields(s) ==
  [year   |-> StrToInt(SubSeq(s, 1, 4)),   month  |-> StrToInt(SubSeq(s, 6, 7)),
   day    |-> StrToInt(SubSeq(s, 9, 10)),  hour   |-> StrToInt(SubSeq(s, 12, 13)),
   minute |-> StrToInt(SubSeq(s, 15, 16)), second |-> StrToInt(SubSeq(s, 18, 19))]

\* The range checks of the datetime constructor: outside them it raises
\* ValueError.
ValidDateTime(d) ==
  /\ d.year \in 1..9999
  /\ d.month \in 1..12
  /\ d.day >= 1 /\ d.day <= DaysInMonth(d.year, d.month)
  /\ d.hour \in 0..23 /\ d.minute \in 0..59 /\ d.second \in 0..59

\* ts.replace("T", " ")
ReplaceT(s) == [i \in DOMAIN s |-> IF s[i] = "T" THEN " " ELSE s[i]]

\* datetime.fromisoformat(s): None stands for the ValueError it raises. It
\* reads ASCII digits only.
fromisoformat(s) ==
  IF \E k \in {1, 2, 3, 4, 6, 7, 9, 10, 12, 13, 15, 16, 18, 19} : s[k] \notin Range(DigitSeq)
  THEN None
  ELSE LET d == IsoFields(s)
       IN  IF ValidDateTime(d) THEN Some(d) ELSE None

\* a < b of two datetimes.
DtKey(d) == <<d.year, d.month, d.day, d.hour, d.minute, d.second>>
RECURSIVE LexLess(_, _)
LexLess(a, b) ==
  IF a = <<>> THEN FALSE
  ELSE IF Head(a) # Head(b) THEN Head(a) < Head(b)
  ELSE LexLess(Tail(a), Tail(b))
DtLess(a, b) == LexLess(DtKey(a), DtKey(b))

\* str(d) of a datetime without microseconds: "YYYY-MM-DD HH:MM:SS".
DtStr(d) ==
  ZeroPad(IntToStr(d.year), 4) \o <<"-">> \o ZeroPad(IntToStr(d.month), 2) \o <<"-">>
    \o ZeroPad(IntToStr(d.day), 2) \o <<" ">> \o ZeroPad(IntToStr(d.hour), 2) \o <<":">>
    \o ZeroPad(IntToStr(d.minute), 2) \o <<":">> \o ZeroPad(IntToStr(d.second), 2)

\* ------------------------------------------- Counter and defaultdict(int)
\* A dict is the sequence of its [key, n] items in insertion order.
HasKey(c, k) == \E i \in DOMAIN c : c[i].key = k
Get(c, k) == IF HasKey(c, k) THEN c[CHOOSE i \in DOMAIN c : c[i].key = k].n ELSE 0
\* An increment that puts a key it has not seen before the keys it has.
IncrNewFirst(c, k) ==
  IF HasKey(c, k)
  THEN [i \in DOMAIN c |-> IF c[i].key = k THEN [key |-> k, n |-> c[i].n + 1] ELSE c[i]]
  ELSE <<[key |-> k, n |-> 1]>> \o c

\* c[k] += 1
Incr(c, k) ==
  IF HasKey(c, k)
  THEN [i \in DOMAIN c |-> IF c[i].key = k THEN [key |-> k, n |-> c[i].n + 1] ELSE c[i]]
  ELSE Append(c, [key |-> k, n |-> 1])

\* Counter.most_common(n): the n items of largest count, largest first, items
\* of equal count in insertion order.
\* The first n items as they were inserted, unranked.
InsertionOrderTop(c, n) == SubSeq(c, 1, IF Len(c) < n THEN Len(c) ELSE n)

RECURSIVE most_common(_, _)
most_common(c, n) ==
  IF n = 0 \/ c = <<>> THEN <<>>
  ELSE LET i == CHOOSE j \in DOMAIN c :
                  /\ \A k \in DOMAIN c : c[k].n <= c[j].n
                  /\ \A k \in 1..(j - 1) : c[k].n < c[j].n
           rest == SubSeq(c, 1, i - 1) \o SubSeq(c, i + 1, Len(c))
       IN  <<c[i]>> \o most_common(rest, n - 1)

\* ---------------------------------------------- summarize_log, the loop
ERROR == <<"E","R","R","O","R">>
CRITICAL == <<"C","R","I","T","I","C","A","L">>

\* The locals of summarize_log as it enters the loop (lines 41-45).
InitAgg ==
  [level_counts |-> <<>>, error_messages |-> <<>>, total_lines |-> 0,
   first_ts |-> None, last_ts |-> None, raised |-> FALSE]

\* A signature of tokens 2 to 7 only: one token short.
ShortMsgSixTokens(msg) == Join(<<" ">>, Slice(Split(msg), 1, 7))

\* short_msg of line 69.
ShortMsg(msg) == Join(<<" ">>, Slice(Split(msg), 1, 8))

\* A signature count that takes in the lines of every level.
KeywordAndSignatureAnyLevel(a, p, keyword) ==
  IF ~IsNone(keyword) /\ Val(keyword) # <<>>
       /\ ~Contains(StrLower(p.message), StrLower(Val(keyword)))
  THEN a
  ELSE [a EXCEPT !.error_messages = Incr(@, ShortMsg(p.message))]

\* A signature count that passes over a line whose signature is empty.
KeywordAndSignatureSkipsEmpty(a, p, keyword) ==
  IF ~IsNone(keyword) /\ Val(keyword) # <<>>
       /\ ~Contains(StrLower(p.message), StrLower(Val(keyword)))
  THEN a
  ELSE IF p.level \in {ERROR, CRITICAL} /\ ShortMsg(p.message) # <<>>
       THEN [a EXCEPT !.error_messages = Incr(@, ShortMsg(p.message))]
       ELSE a

\* Lines 64-70: the keyword filter and the signature count.
KeywordAndSignature(a, p, keyword) ==
  IF ~IsNone(keyword) /\ Val(keyword) # <<>>
       /\ ~Contains(StrLower(p.message), StrLower(Val(keyword)))
  THEN a
  ELSE IF p.level \in {ERROR, CRITICAL}
       THEN [a EXCEPT !.error_messages = Incr(@, ShortMsg(p.message))]
       ELSE a

\* A time window whose bounds are themselves outside it.
TimeWindowExclusive(a, p, keyword, start_date, end_date) ==
  IF IsNone(p.timestamp) THEN KeywordAndSignature(a, p, keyword)
  ELSE LET parsed == fromisoformat(ReplaceT(Val(p.timestamp)))
       IN  IF IsNone(parsed) THEN [a EXCEPT !.raised = TRUE]
           ELSE LET ts_obj == Val(parsed)
                    b == [a EXCEPT !.first_ts = IF IsNone(@) THEN Some(ts_obj) ELSE @,
                                   !.last_ts = Some(ts_obj)]
                IN  IF ~IsNone(start_date) /\ ~DtLess(Val(start_date), ts_obj) THEN b
                    ELSE IF ~IsNone(end_date) /\ ~DtLess(ts_obj, Val(end_date)) THEN b
                    ELSE KeywordAndSignature(b, p, keyword)

\* A time window without the test against --start.
TimeWindowNoStart(a, p, keyword, start_date, end_date) ==
  IF IsNone(p.timestamp) THEN KeywordAndSignature(a, p, keyword)
  ELSE LET parsed == fromisoformat(ReplaceT(Val(p.timestamp)))
       IN  IF IsNone(parsed) THEN [a EXCEPT !.raised = TRUE]
           ELSE LET ts_obj == Val(parsed)
                    b == [a EXCEPT !.first_ts = IF IsNone(@) THEN Some(ts_obj) ELSE @,
                                   !.last_ts = Some(ts_obj)]
                IN  IF ~IsNone(end_date) /\ DtLess(Val(end_date), ts_obj) THEN b
                    ELSE KeywordAndSignature(b, p, keyword)

\* A time window that moves the markers only for lines inside the window.
TimeWindowMarkersAfter(a, p, keyword, start_date, end_date) ==
  IF IsNone(p.timestamp) THEN KeywordAndSignature(a, p, keyword)
  ELSE LET parsed == fromisoformat(ReplaceT(Val(p.timestamp)))
       IN  IF IsNone(parsed) THEN [a EXCEPT !.raised = TRUE]
           ELSE LET ts_obj == Val(parsed)
                    b == [a EXCEPT !.first_ts = IF IsNone(@) THEN Some(ts_obj) ELSE @,
                                   !.last_ts = Some(ts_obj)]
                IN  IF ~IsNone(start_date) /\ DtLess(ts_obj, Val(start_date)) THEN a
                    ELSE IF ~IsNone(end_date) /\ DtLess(Val(end_date), ts_obj) THEN a
                    ELSE KeywordAndSignature(b, p, keyword)

\* A time window whose markers are the least and the greatest timestamp.
TimeWindowMinMax(a, p, keyword, start_date, end_date) ==
  IF IsNone(p.timestamp) THEN KeywordAndSignature(a, p, keyword)
  ELSE LET parsed == fromisoformat(ReplaceT(Val(p.timestamp)))
       IN  IF IsNone(parsed) THEN [a EXCEPT !.raised = TRUE]
           ELSE LET ts_obj == Val(parsed)
                    b == [a EXCEPT
                            !.first_ts = IF IsNone(@) \/ DtLess(ts_obj, Val(@))
                                         THEN Some(ts_obj) ELSE @,
                            !.last_ts = IF IsNone(@) \/ DtLess(Val(@), ts_obj)
                                        THEN Some(ts_obj) ELSE @]
                IN  IF ~IsNone(start_date) /\ DtLess(ts_obj, Val(start_date)) THEN b
                    ELSE IF ~IsNone(end_date) /\ DtLess(Val(end_date), ts_obj) THEN b
                    ELSE KeywordAndSignature(b, p, keyword)

\* Lines 54-62: the timestamp markers and the date window; then the rest.
TimeWindow(a, p, keyword, start_date, end_date) ==
  IF IsNone(p.timestamp) THEN KeywordAndSignature(a, p, keyword)
  ELSE LET parsed == fromisoformat(ReplaceT(Val(p.timestamp)))
       IN  IF IsNone(parsed) THEN [a EXCEPT !.raised = TRUE]
           ELSE LET ts_obj == Val(parsed)
                    b == [a EXCEPT !.first_ts = IF IsNone(@) THEN Some(ts_obj) ELSE @,
                                   !.last_ts = Some(ts_obj)]
                IN  IF ~IsNone(start_date) /\ DtLess(ts_obj, Val(start_date)) THEN b
                    ELSE IF ~IsNone(end_date) /\ DtLess(Val(end_date), ts_obj) THEN b
                    ELSE KeywordAndSignature(b, p, keyword)

\* A loop body that passes over a line with neither timestamp nor level.
LoopBodySkipsUnknown(a, line, keyword, start_date, end_date) ==
  LET p == Parsed(line)
      b == [a EXCEPT !.total_lines = @ + 1, !.level_counts = Incr(@, p.level)]
  IN  IF IsNone(p.timestamp) /\ p.level = UNKNOWN THEN a
      ELSE TimeWindow(b, p, keyword, start_date, end_date)

\* A loop body that tests the keyword before it counts the line.
LoopBodyKeywordFirst(a, line, keyword, start_date, end_date) ==
  LET p == Parsed(line)
      b == [a EXCEPT !.total_lines = @ + 1, !.level_counts = Incr(@, p.level)]
  IN  IF ~IsNone(keyword) /\ ~Contains(StrLower(p.message), StrLower(Val(keyword)))
      THEN a
      ELSE TimeWindow(b, p, keyword, start_date, end_date)

\* A loop body that counts a level only for the lines that carry one.
LoopBodyCountsKnown(a, line, keyword, start_date, end_date) ==
  LET p == Parsed(line)
      b == [a EXCEPT !.total_lines = @ + 1,
                     !.level_counts = IF p.level = UNKNOWN THEN @ ELSE Incr(@, p.level)]
  IN  TimeWindow(b, p, keyword, start_date, end_date)

\* One iteration of the loop of lines 48-70 on the locals a.
LoopBody(a, line, keyword, start_date, end_date) ==
  LET p == Parsed(line)
      b == [a EXCEPT !.total_lines = @ + 1, !.level_counts = Incr(@, p.level)]
  IN  TimeWindow(b, p, keyword, start_date, end_date)

\* The loop over a whole file; it stops at the line that raises.
RECURSIVE RunLoop(_, _, _, _, _)
RunLoop(a, lines, keyword, start_date, end_date) ==
  IF lines = <<>> \/ a.raised THEN a
  ELSE RunLoop(LoopBody(a, Head(lines), keyword, start_date, end_date),
               Tail(lines), keyword, start_date, end_date)

\* ------------------------------------------- summarize_log, the report
TimeSpanLine(a) ==
  IF ~IsNone(a.first_ts)
  THEN <<"T","i","m","e"," ","s","p","a","n",":"," ">> \o DtStr(Val(a.first_ts)) \o <<" ", Arrow, " ">>
         \o (IF IsNone(a.last_ts) THEN <<"N","o","n","e">> ELSE DtStr(Val(a.last_ts)))
  ELSE <<"T","i","m","e"," ","s","p","a","n",":"," ","N","/","A">>

LevelLines(c) == [i \in DOMAIN c |-> <<" "," ">> \o c[i].key \o <<":"," ">> \o IntToStr(c[i].n)]

\* The 5 of most_common(5), line 85.
TopN == 5

TopLines(c) ==
  LET top == most_common(c, TopN)
  IN  [i \in DOMAIN top |-> <<" "," ","(">> \o IntToStr(top[i].n) \o <<"x",")"," ">> \o top[i].key]

\* summary_lines of lines 73-86.
SummaryLines(a, file_path) ==
  <<<<"=","=","=","=","="," ","L","O","G"," ","S","U","M","M","A","R","Y"," ","=","=","=","=","=">>,
    <<"F","i","l","e",":"," ">> \o file_path,
    TimeSpanLine(a),
    <<"T","o","t","a","l"," ","l","i","n","e","s"," ","p","r","o","c","e","s","s","e","d",":"," ">> \o IntToStr(a.total_lines),
    <<>>,
    <<"L","o","g"," ","L","e","v","e","l"," ","C","o","u","n","t","s",":">>>>
  \o LevelLines(a.level_counts)
  \o <<<<"\n","T","o","p"," ","5"," ","R","e","p","e","a","t","e","d"," ","E","r","r","o","r"," ","M","e","s","s","a","g","e","s",":">>>>
  \o TopLines(a.error_messages)

\* summary_text of line 88.
SummaryText(a, file_path) == Join(<<"\n">>, SummaryLines(a, file_path))

\* ============================================ firewall_log_generator.py
\* An operator below that uses an argument more than once takes its value
\* first, as the one element of a set: Only({e(x) : x \in {argument}}).
Only(S) == CHOOSE x \in S : TRUE
Max(a, b) == IF a >= b THEN a ELSE b
\* 2 ** n
RECURSIVE Pow2(_)
Pow2(n) == IF n = 0 THEN 1 ELSE 2 * Pow2(n - 1)
\* n.bit_length()
RECURSIVE BitLength(_)
BitLength(n) == IF n = 0 THEN 0 ELSE 1 + BitLength(n \div 2)

\* ------------------------------------------------- the random module
\* The generator behind the random module is the Mersenne Twister MT19937:
\* 624 words of 32 bits and the index of the next word to give out. A word
\* is the pair <<high 16 bits, low 16 bits>>.
UInt32 == (0..65535) \X (0..65535)
N == 624
M == 397
\* 0x9908b0df
MATRIX_A == <<39176, 45279>>
\* int -> word, for 0 <= n < 2^31, and back
ToWord(n) == <<n \div 65536, n % 65536>>
WordInt(w) == w[1] * 65536 + w[2]

\* a ^ b on four binary digits, at [a + 1][b + 1]
XOR4 ==
  [a \in 1..16 |-> [b \in 1..16 |->
     (((a - 1) + (b - 1)) % 2)
     + 2 * ((((a - 1) \div 2) + ((b - 1) \div 2)) % 2)
     + 4 * ((((a - 1) \div 4) + ((b - 1) \div 4)) % 2)
     + 8 * ((((a - 1) \div 8) + ((b - 1) \div 8)) % 2)] \o <<>>] \o <<>>
\* a ^ b and a & b on 16 binary digits
Xor16(a, b) ==
  Only({XOR4[(x % 16) + 1][(y % 16) + 1]
        + 16 * XOR4[((x \div 16) % 16) + 1][((y \div 16) % 16) + 1]
        + 256 * XOR4[((x \div 256) % 16) + 1][((y \div 256) % 16) + 1]
        + 4096 * XOR4[(x \div 4096) + 1][(y \div 4096) + 1] : x \in {a}, y \in {b}})
And16(a, b) == Only({(x + y - Xor16(x, y)) \div 2 : x \in {a}, y \in {b}})
\* u ^ v, u & v, w >> n, w << n, u + v, u - v and u * v on words
Xor32(u, v) == Only({<<Xor16(x[1], y[1]), Xor16(x[2], y[2])>> : x \in {u}, y \in {v}})
And32(u, v) == Only({<<And16(x[1], y[1]), And16(x[2], y[2])>> : x \in {u}, y \in {v}})
Shr32(w, n) ==
  Only({IF n >= 16 THEN <<0, x[1] \div Pow2(n - 16)>>
        ELSE <<x[1] \div Pow2(n), (x[1] % Pow2(n)) * Pow2(16 - n) + (x[2] \div Pow2(n))>> :
        x \in {w}})
Shl32(w, n) ==
  Only({IF n >= 16 THEN <<(x[2] % Pow2(32 - n)) * Pow2(n - 16), 0>>
        ELSE <<(x[1] % Pow2(16 - n)) * Pow2(n) + (x[2] \div Pow2(16 - n)),
               (x[2] % Pow2(16 - n)) * Pow2(n)>> : x \in {w}})
Add32(u, v) ==
  Only({<<(x[1] + y[1] + ((x[2] + y[2]) \div 65536)) % 65536, (x[2] + y[2]) % 65536>> :
        x \in {u}, y \in {v}})
Sub32(u, v) ==
  Only({<<(x[1] - y[1] + 65535 + ((x[2] - y[2] + 65536) \div 65536)) % 65536,
          (x[2] - y[2] + 65536) % 65536>> : x \in {u}, y \in {v}})
\* The four bytes of a word, lowest first.
Bytes(w) == <<w[2] % 256, w[2] \div 256, w[1] % 256, w[1] \div 256>>
Mul32(u, v) ==
  Only({LET t0 == x[1] * c[1]
            t1 == x[2] * c[1] + x[1] * c[2]
            t2 == x[3] * c[1] + x[2] * c[2] + x[1] * c[3]
            t3 == x[4] * c[1] + x[3] * c[2] + x[2] * c[3] + x[1] * c[4]
            s0 == t0 + ((t1 % 256) * 256)
        IN  <<((s0 \div 65536) + (t1 \div 256) + t2 + ((t3 % 256) * 256)) % 65536, s0 % 65536>> :
        x \in {Bytes(u)}, c \in {Bytes(v)}})

\* (prev ^ (prev >> 30)) * mult
Mix(prev, mult) == Only({Mul32(Xor32(p, Shr32(p, 30)), mult) : p \in {prev}})

\* init_genrand(s): mt[0] = s and mt[i] = 1812433253 * (mt[i-1] ^
\* (mt[i-1] >> 30)) + i. GenrandFill gives mt[lo..hi] from mt[lo-1].
RECURSIVE GenrandFill(_, _, _)
GenrandFill(prev, lo, hi) ==
  IF lo = hi THEN <<Add32(Mix(prev, <<27655, 35173>>), ToWord(lo))>>
  ELSE Only({left \o GenrandFill(left[Len(left)], ((lo + hi) \div 2) + 1, hi) :
             left \in {GenrandFill(prev, lo, (lo + hi) \div 2)}})
init_genrand(s) == <<s>> \o GenrandFill(s, 1, N - 1)
\* init_genrand(19650218), with which init_by_array starts
INIT_19650218 == init_genrand(<<299, 54954>>)

\* The first loop of init_by_array at step i: mt[i] = (mt[i] ^ ((mt[i-1] ^
\* (mt[i-1] >> 30)) * 1664525)) + init_key[j] + j, with j = (i - 1) % len.
KeyStep(old, prev, key, i) ==
  Add32(Add32(Xor32(old, Mix(prev, <<25, 26125>>)), key[((i - 1) % Len(key)) + 1]),
        ToWord((i - 1) % Len(key)))
\* The steps lo..hi of it; old[i] is mt[i] before the step.
RECURSIVE KeyFill(_, _, _, _, _)
KeyFill(old, key, prev, lo, hi) ==
  IF lo = hi THEN <<KeyStep(old[lo], prev, key, lo)>>
  ELSE Only({left \o KeyFill(old, key, left[Len(left)], ((lo + hi) \div 2) + 1, hi) :
             left \in {KeyFill(old, key, prev, lo, (lo + hi) \div 2)}})
\* The second loop: mt[i] = (mt[i] ^ ((mt[i-1] ^ (mt[i-1] >> 30)) *
\* 1566083941)) - i.
LastStep(old, prev, i) == Sub32(Xor32(old, Mix(prev, <<23896, 35685>>)), ToWord(i))
RECURSIVE LastFill(_, _, _, _)
LastFill(old, prev, lo, hi) ==
  IF lo = hi THEN <<LastStep(old[lo], prev, lo)>>
  ELSE Only({left \o LastFill(old, left[Len(left)], ((lo + hi) \div 2) + 1, hi) :
             left \in {LastFill(old, prev, lo, (lo + hi) \div 2)}})
\* init_by_array(init_key) for a key of at most N words: the first loop
\* runs i = 1..N-1, copies mt[N-1] to mt[0] and runs i = 1 once more; the
\* second runs i = 2..N-1, copies mt[N-1] to mt[0] and runs i = 1; then
\* mt[0] = 0x80000000.
init_by_array(key) ==
  Only({Only({Only({Only({<<<<32768, 0>>, d>> \o c :
    d \in {LastStep(b, c[Len(c)], 1)}}) :
    c \in {LastFill(a, b, 2, N - 1)}}) :
    b \in {KeyStep(a[1], a[Len(a)], key, N)}}) :
    a \in {KeyFill(Tail(INIT_19650218), key, INIT_19650218[1], 1, N - 1)}})

\* random.seed(a) for an int a, |a| < 2^31: the key is the one word |a|, and
\* the index is left at N, so that the first draw makes the next 624 words.
RandomSeed(a) == [mt |-> init_by_array(<<ToWord(IF a < 0 THEN -a ELSE a)>>), mti |-> N]

\* One word of the next 624: (mt[kk] & 0x80000000) | (mt[kk+1] & 0x7fffffff)
\* is y, and the word is mt[kk+M] ^ (y >> 1) ^ (MATRIX_A if y is odd); a is
\* mt[kk], b is mt[kk+1] and c is mt[kk+M], the index taken modulo N.
TwistWord(a, b, c) ==
  Only({Xor32(Xor32(c, Shr32(y, 1)), IF y[2] % 2 = 1 THEN MATRIX_A ELSE <<0, 0>>) :
        y \in {<<(a[1] \div 32768) * 32768 + (b[1] % 32768), b[2]>>}})
\* The next 624 words: the first N - M come from the old words alone, the
\* following ones from old words and new words made before them.
NextWords(mt) ==
  Only({Only({Only({A \o B \o C \o <<TwistWord(mt[N], A[1], B[M - (N - M)])>> :
    C \in {[k \in 1..(2 * M - N - 1) |-> TwistWord(mt[k + 2 * (N - M)], mt[k + 2 * (N - M) + 1], B[k])]
           \o <<>>}}) :
    B \in {[k \in 1..(N - M) |-> TwistWord(mt[k + N - M], mt[k + N - M + 1], A[k])] \o <<>>}}) :
    A \in {[k \in 1..(N - M) |-> TwistWord(mt[k], mt[k + 1], mt[k + M])] \o <<>>}})
\* The tempering of a word: y ^= y >> 11; y ^= (y << 7) & 0x9d2c5680;
\* y ^= (y << 15) & 0xefc60000; y ^= y >> 18.
Temper(y) ==
  Only({Only({Only({Xor32(y3, Shr32(y3, 18)) :
    y3 \in {Xor32(y2, And32(Shl32(y2, 15), <<61382, 0>>))}}) :
    y2 \in {Xor32(y1, And32(Shl32(y1, 7), <<40236, 22144>>))}}) :
    y1 \in {Xor32(y, Shr32(y, 11))}})

\* Every draw below is <<the value drawn, the generator state after it>>.
\* genrand_uint32: the next word, tempered; the next 624 words are made first
\* when all have been given out.
genrand_uint32(rng) ==
  Only({<<Temper(s.mt[s.mti + 1]), [s EXCEPT !.mti = @ + 1]>> :
        s \in {IF rng.mti >= N THEN [mt |-> NextWords(rng.mt), mti |-> 0] ELSE rng}})
\* random.getrandbits(k) for 0 < k <= 31: the top k bits of one word.
getrandbits(rng, k) ==
  Only({<<WordInt(Shr32(d[1], 32 - k)), d[2]>> : d \in {genrand_uint32(rng)}})
\* Random._randbelow(n): draws of n.bit_length() bits until one is below n.
RECURSIVE RandBelow(_, _)
RandBelow(rng, n) ==
  IF n = 0 THEN <<0, rng>>
  ELSE Only({IF d[1] < n THEN d ELSE RandBelow(d[2], n) : d \in {getrandbits(rng, BitLength(n))}})
\* random.randint(a, b)
RandInt(rng, a, b) == Only({<<a + d[1], d[2]>> : d \in {RandBelow(rng, b - a + 1)}})
\* random.choice(seq)
Choice(rng, seq) == Only({<<seq[d[1] + 1], d[2]>> : d \in {RandBelow(rng, Len(seq))}})
\* The two words of random.random(): a = word >> 5 and b = word >> 6; the
\* value is (a * 67108864 + b) / 9007199254740992.
RandomBits(rng) ==
  Only({Only({<<<<WordInt(Shr32(d1[1], 5)), WordInt(Shr32(d2[1], 6))>>, d2[2]>> :
              d2 \in {genrand_uint32(d1[2])}}) : d1 \in {genrand_uint32(rng)}})

\* ------------------------------------------------- naturals of any size
\* A natural number too large for one integer is the sequence of its digits
\* in base 2^13, lowest first, without leading zeros: 0 is <<>>.
BASE == 8192
Limb(x, i) == IF 1 <= i /\ i <= Len(x) THEN x[i] ELSE 0
Trim(x) ==
  Only({LET nz == {i \in DOMAIN a : a[i] # 0}
        IN  SubSeq(a, 1, IF nz = {} THEN 0 ELSE CHOOSE i \in nz : \A j \in nz : j <= i) : a \in {x}})
\* The digits of the number whose columns are cols, with c carried in.
RECURSIVE CarryFrom(_, _, _)
CarryFrom(cols, i, c) ==
  IF i > Len(cols) THEN (IF c = 0 THEN <<>> ELSE <<c % BASE>> \o CarryFrom(cols, i, c \div BASE))
  ELSE <<(cols[i] + c) % BASE>> \o CarryFrom(cols, i + 1, (cols[i] + c) \div BASE)
Big(n) == Only({CarryFrom(<<>>, 1, k) : k \in {n}})
RECURSIVE BigToInt(_)
BigToInt(x) == IF x = <<>> THEN 0 ELSE x[1] + BASE * BigToInt(Tail(x))
BigAdd(x, y) ==
  Only({Only({CarryFrom(cols, 1, 0) :
              cols \in {[i \in 1..Max(Len(a), Len(b)) |-> Limb(a, i) + Limb(b, i)] \o <<>>}}) :
        a \in {x}, b \in {y}})
\* x - y, for x >= y
BigSub(x, y) ==
  Only({Only({Trim(CarryFrom(cols, 1, 0)) : cols \in {[i \in 1..Len(a) |-> a[i] - Limb(b, i)] \o <<>>}}) :
        a \in {x}, b \in {y}})
RECURSIVE MulCol(_, _, _, _)
MulCol(a, b, k, i) ==
  IF i > Len(a) \/ i > k THEN 0 ELSE a[i] * Limb(b, k + 1 - i) + MulCol(a, b, k, i + 1)
BigMul(x, y) ==
  Only({Only({Trim(CarryFrom(cols, 1, 0)) :
              cols \in {[k \in 1..(Len(a) + Len(b)) |-> MulCol(a, b, k, 1)] \o <<>>}}) :
        a \in {x}, b \in {y}})
\* x * 2^n
BigShl(x, n) ==
  Only({Trim([i \in 1..(Len(a) + q + 1) |->
               ((Limb(a, i - q) * Pow2(r)) % BASE) + (Limb(a, i - q - 1) \div Pow2(13 - r))] \o <<>>) :
        a \in {x}, q \in {n \div 13}, r \in {n % 13}})
\* x \div 2^n
BigShr(x, n) ==
  Only({Trim([i \in 1..Max(0, Len(a) - q) |->
               (Limb(a, i + q) \div Pow2(r)) + ((Limb(a, i + q + 1) % Pow2(r)) * Pow2(13 - r))] \o <<>>) :
        a \in {x}, q \in {n \div 13}, r \in {n % 13}})
\* x % 2^n
BigLow(x, n) ==
  Only({Trim([i \in 1..(q + 1) |-> IF i <= q THEN Limb(a, i) ELSE Limb(a, i) % Pow2(r)] \o <<>>) :
        a \in {x}, q \in {n \div 13}, r \in {n % 13}})
\* The number of binary digits of x.
BigBits(x) == Only({IF a = <<>> THEN 0 ELSE 13 * (Len(a) - 1) + BitLength(a[Len(a)]) : a \in {x}})
BigLt(x, y) ==
  Only({LET d == {i \in 1..Max(Len(a), Len(b)) : Limb(a, i) # Limb(b, i)}
        IN  d # {} /\ LET t == CHOOSE i \in d : \A j \in d : j <= i IN Limb(a, t) < Limb(b, t) :
        a \in {x}, b \in {y}})
BigOdd(x) == Limb(x, 1) % 2 = 1
\* Long division in base 2^13. The quotient digit of r by d, for r < d * 2^13,
\* and what is left of r: q is at most the digit, and is raised until less
\* than d is left.
RECURSIVE DigitFrom(_, _, _)
DigitFrom(q, left, d) ==
  Only({IF BigLt(l, d) THEN <<k, l>> ELSE DigitFrom(k + 1, BigSub(l, d), d) : k \in {q}, l \in {left}})
\* The first guess divides the leading binary digits of r by those of d,
\* rounded up.
QuotDigit(r, d) ==
  Only({Only({DigitFrom(q, BigSub(r, BigMul(d, Big(q))), d) :
              q \in {IF sh = 0 THEN BigToInt(r) \div BigToInt(d)
                     ELSE BigToInt(BigShr(r, sh)) \div (BigToInt(BigShr(d, sh)) + 1)}}) :
        sh \in {Max(0, BigBits(d) - 15)}})
\* One digit of n is taken down: s is <<quotient so far, remainder so far>>.
DivStep(s, n, d, i) ==
  Only({<<<<qd[1]>> \o s[1], qd[2]>> : qd \in {QuotDigit(Trim(<<n[i]>> \o s[2]), d)}})
\* The digits k down to 1 of n.
RECURSIVE DivLimbs(_, _, _, _)
DivLimbs(s, n, d, k) ==
  Only({IF i = 0 THEN <<Trim(t[1]), t[2]>> ELSE DivLimbs(DivStep(t, n, d, i), n, d, i - 1) :
        t \in {s}, i \in {k}})
\* <<n \div d, n % d>>
BigDivMod(n, d) == Only({DivLimbs(<<<<>>, <<>>>>, a, b, Len(a)) : a \in {n}, b \in {d}})

\* --------------------------------------------------------------- doubles
\* A finite double that is not negative is [m, e], the number m * 2^e with
\* 2^52 <= m < 2^53; 0.0 is [m |-> <<>>, e |-> 0].
Zero == [m |-> <<>>, e |-> 0]
\* The double nearest to n * 2^e, ties to the even one; inexact says that n
\* was cut off from a number with more digits.
Round(n, e, inexact) ==
  Only({IF bl = 0 THEN Zero
        ELSE IF bl <= 53 THEN [m |-> BigShl(a, 53 - bl), e |-> e - (53 - bl)]
        ELSE Only({Only({IF BigBits(p) = 54 THEN [m |-> BigShr(p, 1), e |-> e + bl - 52]
                         ELSE [m |-> p, e |-> e + bl - 53] :
               p \in {IF BigLt(half, r) \/ (r = half /\ (inexact \/ BigOdd(q)))
                      THEN BigAdd(q, <<1>>) ELSE q}}) :
               q \in {BigShr(a, bl - 53)}, r \in {BigLow(a, bl - 53)}, half \in {BigShl(<<1>>, bl - 54)}}) :
        a \in {n}, bl \in {BigBits(n)}})
FloatMul(x, y) == Only({Round(BigMul(a.m, b.m), a.e + b.e, FALSE) : a \in {x}, b \in {y}})
FloatAdd(x, y) ==
  Only({IF a.m = <<>> THEN b ELSE IF b.m = <<>> THEN a
        ELSE IF a.e - b.e > 64 THEN Round(BigShl(a.m, 2), a.e - 2, TRUE)
        ELSE IF b.e - a.e > 64 THEN Round(BigShl(b.m, 2), b.e - 2, TRUE)
        ELSE Only({Round(BigAdd(BigShl(a.m, a.e - e0), BigShl(b.m, b.e - e0)), e0, FALSE) :
                   e0 \in {IF a.e < b.e THEN a.e ELSE b.e}}) : a \in {x}, b \in {y}})
\* x - y, for x >= y
FloatSub(x, y) ==
  Only({IF b.m = <<>> THEN a
        ELSE IF a.e - b.e > 64 THEN Round(BigSub(BigShl(a.m, 2), <<1>>), a.e - 2, TRUE)
        ELSE Round(BigSub(BigShl(a.m, a.e - b.e), b.m), b.e, FALSE) : a \in {x}, b \in {y}})
FloatDiv(x, y) ==
  Only({IF a.m = <<>> THEN Zero
        ELSE Only({Round(qr[1], a.e - 55 - b.e, qr[2] # <<>>) :
                   qr \in {BigDivMod(BigShl(a.m, 55), b.m)}}) : a \in {x}, b \in {y}})
FloatLt(x, y) ==
  Only({b.m # <<>> /\ (a.m = <<>> \/ a.e < b.e \/ (a.e = b.e /\ BigLt(a.m, b.m))) :
        a \in {x}, b \in {y}})
FloatLe(x, y) == ~FloatLt(y, x)
\* float(n) of an int 0 <= n < 2^31
Float(n) == Round(Big(n), 0, FALSE)

\* ------------------------------------------------------- signed doubles
\* math.log works on doubles of either sign: [neg, m, e] is the double
\* m * 2^e, taken negative when neg. Zero is kept without sign.
Signed(x) == [neg |-> FALSE, m |-> x.m, e |-> x.e]
Negated(x) == [x EXCEPT !.neg = (x.m # <<>>) /\ ~@]
SRound(neg, n, e, inexact) ==
  Only({[neg |-> neg /\ v.m # <<>>, m |-> v.m, e |-> v.e] : v \in {Round(n, e, inexact)}})
\* The double nearest to the sum of two numbers n * 2^e, negative when neg,
\* each n at least 2^52. A number too small to reach the last binary digit
\* kept of the other only marks the other as cut off.
SumRound(neg1, n1, e1, neg2, n2, e2) ==
  Only({IF s[5] + BigBits(s[4]) <= s[3] - 2
        THEN SRound(s[1], IF s[1] = s[6] THEN BigShl(s[2], 2) ELSE BigSub(BigShl(s[2], 2), <<1>>),
                    s[3] - 2, TRUE)
        ELSE IF s[3] + BigBits(s[2]) <= s[5] - 2
        THEN SRound(s[6], IF s[1] = s[6] THEN BigShl(s[4], 2) ELSE BigSub(BigShl(s[4], 2), <<1>>),
                    s[5] - 2, TRUE)
        ELSE Only({IF s[1] = s[6] THEN SRound(s[1], BigAdd(a, b), e0, FALSE)
                   ELSE IF BigLt(a, b) THEN SRound(s[6], BigSub(b, a), e0, FALSE)
                   ELSE SRound(s[1], BigSub(a, b), e0, FALSE) :
                   a \in {BigShl(s[2], s[3] - (IF s[3] < s[5] THEN s[3] ELSE s[5]))},
                   b \in {BigShl(s[4], s[5] - (IF s[3] < s[5] THEN s[3] ELSE s[5]))},
                   e0 \in {IF s[3] < s[5] THEN s[3] ELSE s[5]}}) :
        s \in {<<neg1, n1, e1, n2, e2, neg2>>}})
\* x * y + z rounded once (the processor's fused multiply-add), x + y, x - y
\* and x * y
Fma(x, y, z) ==
  Only({IF a.m = <<>> \/ b.m = <<>> THEN c
        ELSE IF c.m = <<>> THEN SRound(a.neg # b.neg, BigMul(a.m, b.m), a.e + b.e, FALSE)
        ELSE SumRound(a.neg # b.neg, BigMul(a.m, b.m), a.e + b.e, c.neg, c.m, c.e) :
        a \in {x}, b \in {y}, c \in {z}})
SAdd(x, y) ==
  Only({IF a.m = <<>> THEN b ELSE IF b.m = <<>> THEN a
        ELSE SumRound(a.neg, a.m, a.e, b.neg, b.m, b.e) : a \in {x}, b \in {y}})
SSub(x, y) == SAdd(x, Negated(y))
SMul(x, y) == Fma(x, y, Signed(Zero))

\* -------------------------------------------------------------- math.log
\* math.log(x) is the C library's log. This is the log of glibc 2.36 for
\* x86-64 on a processor with fused multiply-add (__log in
\* sysdeps/ieee754/dbl-64/e_log.c, built as __log_fma), with its data
\* (__log_data in e_log_data.c): ln2hi and ln2lo, the polynomials poly (A)
\* and poly1 (B), and the table tab of invc and logc.
LN2HI == [neg |-> FALSE, m |-> <<6144, 6097, 4287, 3164, 1>>, e |-> -53]
LN2LO == [neg |-> FALSE, m |-> <<1840, 7739, 5604, 7654, 1>>, e |-> -97]
LOG_A ==
  <<[neg |-> TRUE, m |-> <<1, 0, 0, 0, 1>>, e |-> -53],
    [neg |-> FALSE, m |-> <<4187, 2697, 5461, 2730, 1>>, e |-> -54],
    [neg |-> TRUE, m |-> <<1424, 8026, 8191, 8191, 1>>, e |-> -55],
    [neg |-> FALSE, m |-> <<273, 1928, 3273, 4915, 1>>, e |-> -55],
    [neg |-> TRUE, m |-> <<2207, 2102, 7545, 2730, 1>>, e |-> -55]>>
LOG_B ==
  <<[neg |-> TRUE, m |-> <<0, 0, 0, 0, 1>>, e |-> -53],
    [neg |-> FALSE, m |-> <<5495, 2730, 5461, 2730, 1>>, e |-> -54],
    [neg |-> TRUE, m |-> <<7627, 8191, 8191, 8191, 1>>, e |-> -55],
    [neg |-> FALSE, m |-> <<7436, 3246, 1638, 4915, 1>>, e |-> -55],
    [neg |-> TRUE, m |-> <<1447, 2874, 5461, 2730, 1>>, e |-> -55],
    [neg |-> FALSE, m |-> <<7728, 6694, 2344, 1170, 1>>, e |-> -55],
    [neg |-> TRUE, m |-> <<7525, 529, 8169, 8191, 1>>, e |-> -56],
    [neg |-> FALSE, m |-> <<5834, 342, 266, 6371, 1>>, e |-> -56],
    [neg |-> TRUE, m |-> <<2303, 7555, 6864, 4915, 1>>, e |-> -56],
    [neg |-> FALSE, m |-> <<4229, 7550, 189, 3843, 1>>, e |-> -56],
    [neg |-> TRUE, m |-> <<1485, 3722, 1245, 2724, 1>>, e |-> -56]>>
LOG_TAB ==
  <<<<[neg |-> FALSE, m |-> <<7839, 7942, 7216, 3689, 1>>, e |-> -52], [neg |-> TRUE, m |-> <<4096, 3892, 8158, 3992, 1>>, e |-> -54]>>,
    <<[neg |-> FALSE, m |-> <<2335, 4455, 7706, 3622, 1>>, e |-> -52], [neg |-> TRUE, m |-> <<0, 4200, 7088, 3807, 1>>, e |-> -54]>>,
    <<[neg |-> FALSE, m |-> <<5536, 2005, 6146, 3556, 1>>, e |-> -52], [neg |-> TRUE, m |-> <<0, 6799, 6340, 3623, 1>>, e |-> -54]>>,
    <<[neg |-> FALSE, m |-> <<3197, 6300, 2439, 3491, 1>>, e |-> -52], [neg |-> TRUE, m |-> <<6144, 323, 5838, 3440, 1>>, e |-> -54]>>,
    <<[neg |-> FALSE, m |-> <<5329, 7725, 4674, 3426, 1>>, e |-> -52], [neg |-> TRUE, m |-> <<6144, 1027, 5476, 3258, 1>>, e |-> -54]>>,
    <<[neg |-> FALSE, m |-> <<3258, 6520, 4556, 3362, 1>>, e |-> -52], [neg |-> TRUE, m |-> <<0, 4288, 5149, 3077, 1>>, e |-> -54]>>,
    <<[neg |-> FALSE, m |-> <<547, 274, 1990, 3299, 1>>, e |-> -52], [neg |-> TRUE, m |-> <<4096, 5252, 4769, 2897, 1>>, e |-> -54]>>,
    <<[neg |-> FALSE, m |-> <<7897, 3368, 5094, 3236, 1>>, e |-> -52], [neg |-> TRUE, m |-> <<4096, 4122, 4309, 2718, 1>>, e |-> -54]>>,
    <<[neg |-> FALSE, m |-> <<1220, 5241, 5546, 3174, 1>>, e |-> -52], [neg |-> TRUE, m |-> <<0, 7002, 3568, 2540, 1>>, e |-> -54]>>,
    <<[neg |-> FALSE, m |-> <<7188, 7406, 3290, 3113, 1>>, e |-> -52], [neg |-> TRUE, m |-> <<4096, 3394, 2559, 2363, 1>>, e |-> -54]>>,
    <<[neg |-> FALSE, m |-> <<7244, 5682, 6420, 3052, 1>>, e |-> -52], [neg |-> TRUE, m |-> <<2048, 3149, 1166, 2187, 1>>, e |-> -54]>>,
    <<[neg |-> FALSE, m |-> <<3151, 3209, 6637, 2992, 1>>, e |-> -52], [neg |-> TRUE, m |-> <<6144, 3461, 7438, 2011, 1>>, e |-> -54]>>,
    <<[neg |-> FALSE, m |-> <<4318, 6876, 3890, 2933, 1>>, e |-> -52], [neg |-> TRUE, m |-> <<4096, 1147, 5009, 1837, 1>>, e |-> -54]>>,
    <<[neg |-> FALSE, m |-> <<6776, 5832, 6268, 2874, 1>>, e |-> -52], [neg |-> TRUE, m |-> <<0, 7661, 1925, 1664, 1>>, e |-> -54]>>,
    <<[neg |-> FALSE, m |-> <<5767, 4658, 5508, 2816, 1>>, e |-> -52], [neg |-> TRUE, m |-> <<0, 6708, 6331, 1491, 1>>, e |-> -54]>>,
    <<[neg |-> FALSE, m |-> <<3027, 5947, 1523, 2759, 1>>, e |-> -52], [neg |-> TRUE, m |-> <<0, 391, 1742, 1320, 1>>, e |-> -54]>>,
    <<[neg |-> FALSE, m |-> <<8083, 5435, 2424, 2702, 1>>, e |-> -52], [neg |-> TRUE, m |-> <<2048, 1748, 4451, 1149, 1>>, e |-> -54]>>,
    <<[neg |-> FALSE, m |-> <<1411, 4146, 8144, 2645, 1>>, e |-> -52], [neg |-> TRUE, m |-> <<4096, 2364, 6218, 979, 1>>, e |-> -54]>>,
    <<[neg |-> FALSE, m |-> <<7647, 7573, 2230, 2590, 1>>, e |-> -52], [neg |-> TRUE, m |-> <<6144, 6727, 6986, 810, 1>>, e |-> -54]>>,
    <<[neg |-> FALSE, m |-> <<7895, 6566, 977, 2535, 1>>, e |-> -52], [neg |-> TRUE, m |-> <<6144, 5583, 6630, 642, 1>>, e |-> -54]>>,
    <<[neg |-> FALSE, m |-> <<2112, 7921, 4339, 2480, 1>>, e |-> -52], [neg |-> TRUE, m |-> <<6144, 1916, 5157, 475, 1>>, e |-> -54]>>,
    <<[neg |-> FALSE, m |-> <<968, 965, 4016, 2426, 1>>, e |-> -52], [neg |-> TRUE, m |-> <<4096, 1752, 2374, 309, 1>>, e |-> -54]>>,
    <<[neg |-> FALSE, m |-> <<1418, 7937, 8176, 2372, 1>>, e |-> -52], [neg |-> TRUE, m |-> <<6144, 4893, 6548, 143, 1>>, e |-> -54]>>,
    <<[neg |-> FALSE, m |-> <<1076, 1700, 329, 2320, 1>>, e |-> -52], [neg |-> TRUE, m |-> <<4096, 3127, 2193, 8150, 1>>, e |-> -55]>>,
    <<[neg |-> FALSE, m |-> <<3339, 6345, 4998, 2267, 1>>, e |-> -52], [neg |-> TRUE, m |-> <<4096, 2237, 4765, 7822, 1>>, e |-> -55]>>,
    <<[neg |-> FALSE, m |-> <<6228, 6600, 5748, 2215, 1>>, e |-> -52], [neg |-> TRUE, m |-> <<4096, 2177, 4367, 7496, 1>>, e |-> -55]>>,
    <<[neg |-> FALSE, m |-> <<1114, 1444, 2513, 2164, 1>>, e |-> -52], [neg |-> TRUE, m |-> <<4096, 1869, 849, 7172, 1>>, e |-> -55]>>,
    <<[neg |-> FALSE, m |-> <<6395, 2223, 3408, 2113, 1>>, e |-> -52], [neg |-> TRUE, m |-> <<4096, 3007, 2186, 6849, 1>>, e |-> -55]>>,
    <<[neg |-> FALSE, m |-> <<5297, 4599, 182, 2063, 1>>, e |-> -52], [neg |-> TRUE, m |-> <<4096, 1196, 65, 6528, 1>>, e |-> -55]>>,
    <<[neg |-> FALSE, m |-> <<7823, 2751, 983, 2013, 1>>, e |-> -52], [neg |-> TRUE, m |-> <<4096, 5192, 2645, 6208, 1>>, e |-> -55]>>,
    <<[neg |-> FALSE, m |-> <<3305, 90, 5736, 1963, 1>>, e |-> -52], [neg |-> TRUE, m |-> <<4096, 3080, 1507, 5890, 1>>, e |-> -55]>>,
    <<[neg |-> FALSE, m |-> <<299, 134, 6192, 1914, 1>>, e |-> -52], [neg |-> TRUE, m |-> <<4096, 1694, 4723, 5573, 1>>, e |-> -55]>>,
    <<[neg |-> FALSE, m |-> <<6840, 7086, 2314, 1866, 1>>, e |-> -52], [neg |-> TRUE, m |-> <<4096, 4244, 4107, 5258, 1>>, e |-> -55]>>,
    <<[neg |-> FALSE, m |-> <<4098, 3326, 2227, 1818, 1>>, e |-> -52], [neg |-> TRUE, m |-> <<4096, 239, 7642, 4944, 1>>, e |-> -55]>>,
    <<[neg |-> FALSE, m |-> <<6684, 3107, 5873, 1770, 1>>, e |-> -52], [neg |-> TRUE, m |-> <<4096, 2625, 7002, 4632, 1>>, e |-> -55]>>,
    <<[neg |-> FALSE, m |-> <<5858, 3433, 5010, 1723, 1>>, e |-> -52], [neg |-> TRUE, m |-> <<0, 4654, 2089, 4322, 1>>, e |-> -55]>>,
    <<[neg |-> FALSE, m |-> <<5184, 622, 7782, 1676, 1>>, e |-> -52], [neg |-> TRUE, m |-> <<4096, 161, 1005, 4013, 1>>, e |-> -55]>>,
    <<[neg |-> FALSE, m |-> <<2852, 6142, 5939, 1630, 1>>, e |-> -52], [neg |-> TRUE, m |-> <<4096, 787, 3599, 3705, 1>>, e |-> -55]>>,
    <<[neg |-> FALSE, m |-> <<3401, 3336, 7645, 1584, 1>>, e |-> -52], [neg |-> TRUE, m |-> <<0, 6587, 1702, 3399, 1>>, e |-> -55]>>,
    <<[neg |-> FALSE, m |-> <<6544, 6641, 4621, 1539, 1>>, e |-> -52], [neg |-> TRUE, m |-> <<0, 1469, 3157, 3094, 1>>, e |-> -55]>>,
    <<[neg |-> FALSE, m |-> <<6209, 7343, 5038, 1494, 1>>, e |-> -52], [neg |-> TRUE, m |-> <<4096, 4385, 8029, 2790, 1>>, e |-> -55]>>,
    <<[neg |-> FALSE, m |-> <<2513, 4301, 640, 1450, 1>>, e |-> -52], [neg |-> TRUE, m |-> <<4096, 7697, 7907, 2488, 1>>, e |-> -55]>>,
    <<[neg |-> FALSE, m |-> <<7466, 1471, 7786, 1405, 1>>, e |-> -52], [neg |-> TRUE, m |-> <<0, 3728, 2836, 2188, 1>>, e |-> -55]>>,
    <<[neg |-> FALSE, m |-> <<7083, 4192, 1822, 1362, 1>>, e |-> -52], [neg |-> TRUE, m |-> <<0, 1048, 687, 1889, 1>>, e |-> -55]>>,
    <<[neg |-> FALSE, m |-> <<5424, 165, 7320, 1318, 1>>, e |-> -52], [neg |-> TRUE, m |-> <<0, 6728, 1626, 1591, 1>>, e |-> -55]>>,
    <<[neg |-> FALSE, m |-> <<501, 6845, 7829, 1275, 1>>, e |-> -52], [neg |-> TRUE, m |-> <<0, 1314, 5412, 1294, 1>>, e |-> -55]>>,
    <<[neg |-> FALSE, m |-> <<7103, 6377, 3302, 1233, 1>>, e |-> -52], [neg |-> TRUE, m |-> <<0, 973, 3710, 999, 1>>, e |-> -55]>>,
    <<[neg |-> FALSE, m |-> <<5565, 7295, 1888, 1191, 1>>, e |-> -52], [neg |-> TRUE, m |-> <<0, 2405, 4617, 705, 1>>, e |-> -55]>>,
    <<[neg |-> FALSE, m |-> <<2107, 5704, 3562, 1149, 1>>, e |-> -52], [neg |-> TRUE, m |-> <<0, 8121, 8149, 412, 1>>, e |-> -55]>>,
    <<[neg |-> FALSE, m |-> <<182, 7498, 74, 1108, 1>>, e |-> -52], [neg |-> TRUE, m |-> <<0, 4085, 5906, 121, 1>>, e |-> -55]>>,
    <<[neg |-> FALSE, m |-> <<306, 5730, 7781, 1066, 1>>, e |-> -52], [neg |-> TRUE, m |-> <<0, 604, 3951, 7855, 1>>, e |-> -56]>>,
    <<[neg |-> FALSE, m |-> <<7323, 3735, 2055, 1026, 1>>, e |-> -52], [neg |-> TRUE, m |-> <<0, 4610, 549, 7278, 1>>, e |-> -56]>>,
    <<[neg |-> FALSE, m |-> <<2059, 2666, 7442, 985, 1>>, e |-> -52], [neg |-> TRUE, m |-> <<0, 6090, 1551, 6703, 1>>, e |-> -56]>>,
    <<[neg |-> FALSE, m |-> <<1385, 5243, 7508, 945, 1>>, e |-> -52], [neg |-> TRUE, m |-> <<0, 5829, 6611, 6130, 1>>, e |-> -56]>>,
    <<[neg |-> FALSE, m |-> <<7804, 2747, 2244, 906, 1>>, e |-> -52], [neg |-> TRUE, m |-> <<0, 379, 7752, 5560, 1>>, e |-> -56]>>,
    <<[neg |-> FALSE, m |-> <<1769, 1625, 7965, 866, 1>>, e |-> -52], [neg |-> TRUE, m |-> <<0, 6468, 4345, 4993, 1>>, e |-> -56]>>,
    <<[neg |-> FALSE, m |-> <<6838, 352, 67, 828, 1>>, e |-> -52], [neg |-> TRUE, m |-> <<0, 7062, 4524, 4428, 1>>, e |-> -56]>>,
    <<[neg |-> FALSE, m |-> <<4285, 7603, 3102, 789, 1>>, e |-> -52], [neg |-> TRUE, m |-> <<0, 7520, 108, 3866, 1>>, e |-> -56]>>,
    <<[neg |-> FALSE, m |-> <<7350, 3965, 649, 751, 1>>, e |-> -52], [neg |-> TRUE, m |-> <<0, 2496, 7249, 3305, 1>>, e |-> -56]>>,
    <<[neg |-> FALSE, m |-> <<4570, 2657, 845, 713, 1>>, e |-> -52], [neg |-> TRUE, m |-> <<0, 3132, 923, 2748, 1>>, e |-> -56]>>,
    <<[neg |-> FALSE, m |-> <<8157, 314, 3684, 675, 1>>, e |-> -52], [neg |-> TRUE, m |-> <<0, 5391, 5943, 2192, 1>>, e |-> -56]>>,
    <<[neg |-> FALSE, m |-> <<4684, 406, 937, 638, 1>>, e |-> -52], [neg |-> TRUE, m |-> <<0, 2901, 5715, 1639, 1>>, e |-> -56]>>,
    <<[neg |-> FALSE, m |-> <<6618, 4231, 732, 601, 1>>, e |-> -52], [neg |-> TRUE, m |-> <<0, 1579, 7806, 1088, 1>>, e |-> -56]>>,
    <<[neg |-> FALSE, m |-> <<5425, 1893, 3082, 564, 1>>, e |-> -52], [neg |-> TRUE, m |-> <<0, 785, 4518, 540, 1>>, e |-> -56]>>,
    <<[neg |-> FALSE, m |-> <<5295, 5153, 7926, 527, 1>>, e |-> -52], [neg |-> TRUE, m |-> <<0, 5776, 6938, 8180, 1>>, e |-> -57]>>,
    <<[neg |-> FALSE, m |-> <<2995, 6771, 7043, 491, 1>>, e |-> -52], [neg |-> TRUE, m |-> <<0, 5050, 850, 7093, 1>>, e |-> -57]>>,
    <<[neg |-> FALSE, m |-> <<8142, 2388, 407, 456, 1>>, e |-> -52], [neg |-> TRUE, m |-> <<0, 1064, 6969, 6009, 1>>, e |-> -57]>>,
    <<[neg |-> FALSE, m |-> <<1313, 6501, 4376, 420, 1>>, e |-> -52], [neg |-> TRUE, m |-> <<0, 150, 592, 4931, 1>>, e |-> -57]>>,
    <<[neg |-> FALSE, m |-> <<6170, 1812, 2527, 385, 1>>, e |-> -52], [neg |-> TRUE, m |-> <<0, 6166, 5644, 3856, 1>>, e |-> -57]>>,
    <<[neg |-> FALSE, m |-> <<5841, 7729, 3040, 350, 1>>, e |-> -52], [neg |-> TRUE, m |-> <<0, 7860, 6041, 2786, 1>>, e |-> -57]>>,
    <<[neg |-> FALSE, m |-> <<4921, 1280, 5862, 315, 1>>, e |-> -52], [neg |-> TRUE, m |-> <<0, 2860, 658, 1721, 1>>, e |-> -57]>>,
    <<[neg |-> FALSE, m |-> <<2015, 6807, 2795, 281, 1>>, e |-> -52], [neg |-> TRUE, m |-> <<0, 170, 6361, 659, 1>>, e |-> -57]>>,
    <<[neg |-> FALSE, m |-> <<2299, 6769, 1995, 247, 1>>, e |-> -52], [neg |-> TRUE, m |-> <<0, 5980, 4128, 7397, 1>>, e |-> -58]>>,
    <<[neg |-> FALSE, m |-> <<3865, 428, 3427, 213, 1>>, e |-> -52], [neg |-> TRUE, m |-> <<0, 4756, 7252, 5291, 1>>, e |-> -58]>>,
    <<[neg |-> FALSE, m |-> <<6444, 3943, 7081, 179, 1>>, e |-> -52], [neg |-> TRUE, m |-> <<0, 7180, 6323, 3194, 1>>, e |-> -58]>>,
    <<[neg |-> FALSE, m |-> <<3216, 3721, 4723, 146, 1>>, e |-> -52], [neg |-> TRUE, m |-> <<0, 1360, 7907, 1105, 1>>, e |-> -58]>>,
    <<[neg |-> FALSE, m |-> <<3497, 6021, 4529, 113, 1>>, e |-> -52], [neg |-> TRUE, m |-> <<0, 1992, 7880, 6242, 1>>, e |-> -59]>>,
    <<[neg |-> FALSE, m |-> <<4777, 7113, 6468, 80, 1>>, e |-> -52], [neg |-> TRUE, m |-> <<0, 3408, 3415, 2098, 1>>, e |-> -59]>>,
    <<[neg |-> FALSE, m |-> <<4936, 8019, 2313, 48, 1>>, e |-> -52], [neg |-> TRUE, m |-> <<0, 5984, 240, 4132, 1>>, e |-> -60]>>,
    <<[neg |-> FALSE, m |-> <<4501, 4261, 257, 16, 1>>, e |-> -52], [neg |-> TRUE, m |-> <<0, 2336, 606, 8, 1>>, e |-> -61]>>,
    <<[neg |-> FALSE, m |-> <<6682, 6455, 2045, 8128, 1>>, e |-> -53], [neg |-> FALSE, m |-> <<0, 1152, 7393, 8159, 1>>, e |-> -61]>>,
    <<[neg |-> FALSE, m |-> <<2676, 4879, 1840, 8002, 1>>, e |-> -53], [neg |-> FALSE, m |-> <<0, 2536, 4173, 4024, 1>>, e |-> -59]>>,
    <<[neg |-> FALSE, m |-> <<6446, 1036, 1068, 7878, 1>>, e |-> -53], [neg |-> FALSE, m |-> <<0, 1556, 2289, 1949, 1>>, e |-> -58]>>,
    <<[neg |-> FALSE, m |-> <<3533, 1909, 7567, 7755, 1>>, e |-> -53], [neg |-> FALSE, m |-> <<0, 1096, 4165, 5951, 1>>, e |-> -58]>>,
    <<[neg |-> FALSE, m |-> <<5095, 7304, 4608, 7635, 1>>, e |-> -53], [neg |-> FALSE, m |-> <<0, 4232, 5683, 865, 1>>, e |-> -57]>>,
    <<[neg |-> FALSE, m |-> <<4523, 1629, 30, 7517, 1>>, e |-> -53], [neg |-> FALSE, m |-> <<0, 14, 5876, 2836, 1>>, e |-> -57]>>,
    <<[neg |-> FALSE, m |-> <<3227, 5352, 1704, 7400, 1>>, e |-> -53], [neg |-> FALSE, m |-> <<0, 1732, 208, 4793, 1>>, e |-> -57]>>,
    <<[neg |-> FALSE, m |-> <<6581, 6228, 1120, 7285, 1>>, e |-> -53], [neg |-> FALSE, m |-> <<0, 6844, 6843, 6734, 1>>, e |-> -57]>>,
    <<[neg |-> FALSE, m |-> <<6742, 2820, 6146, 7171, 1>>, e |-> -53], [neg |-> FALSE, m |-> <<0, 3270, 1593, 235, 1>>, e |-> -56]>>,
    <<[neg |-> FALSE, m |-> <<7064, 3005, 121, 7060, 1>>, e |-> -53], [neg |-> FALSE, m |-> <<0, 6249, 7544, 1191, 1>>, e |-> -56]>>,
    <<[neg |-> FALSE, m |-> <<4355, 7140, 7298, 6949, 1>>, e |-> -53], [neg |-> FALSE, m |-> <<0, 6592, 5986, 2141, 1>>, e |-> -56]>>,
    <<[neg |-> FALSE, m |-> <<7374, 6106, 2841, 6841, 1>>, e |-> -53], [neg |-> FALSE, m |-> <<0, 6846, 5729, 3084, 1>>, e |-> -56]>>,
    <<[neg |-> FALSE, m |-> <<7837, 4854, 2858, 6734, 1>>, e |-> -53], [neg |-> FALSE, m |-> <<0, 2896, 7565, 4020, 1>>, e |-> -56]>>,
    <<[neg |-> FALSE, m |-> <<3277, 4953, 7055, 6628, 1>>, e |-> -53], [neg |-> FALSE, m |-> <<0, 4323, 4307, 4950, 1>>, e |-> -56]>>,
    <<[neg |-> FALSE, m |-> <<6402, 5435, 7016, 6524, 1>>, e |-> -53], [neg |-> FALSE, m |-> <<0, 6251, 4590, 5873, 1>>, e |-> -56]>>,
    <<[neg |-> FALSE, m |-> <<2157, 2488, 2459, 6422, 1>>, e |-> -53], [neg |-> FALSE, m |-> <<0, 5945, 1228, 6790, 1>>, e |-> -56]>>,
    <<[neg |-> FALSE, m |-> <<6148, 2794, 1327, 6321, 1>>, e |-> -53], [neg |-> FALSE, m |-> <<0, 3827, 3164, 7700, 1>>, e |-> -56]>>,
    <<[neg |-> FALSE, m |-> <<8076, 7644, 3404, 6221, 1>>, e |-> -53], [neg |-> FALSE, m |-> <<0, 7306, 1354, 206, 1>>, e |-> -55]>>,
    <<[neg |-> FALSE, m |-> <<1855, 5991, 251, 6123, 1>>, e |-> -53], [neg |-> FALSE, m |-> <<4096, 5269, 352, 655, 1>>, e |-> -55]>>,
    <<[neg |-> FALSE, m |-> <<5825, 3804, 8029, 6025, 1>>, e |-> -53], [neg |-> FALSE, m |-> <<4096, 3665, 7091, 1100, 1>>, e |-> -55]>>,
    <<[neg |-> FALSE, m |-> <<2600, 1074, 1923, 5930, 1>>, e |-> -53], [neg |-> FALSE, m |-> <<4096, 5674, 5609, 1543, 1>>, e |-> -55]>>,
    <<[neg |-> FALSE, m |-> <<7724, 3961, 6321, 5835, 1>>, e |-> -53], [neg |-> FALSE, m |-> <<4096, 408, 4303, 1983, 1>>, e |-> -55]>>,
    <<[neg |-> FALSE, m |-> <<2187, 7756, 4633, 5742, 1>>, e |-> -53], [neg |-> FALSE, m |-> <<0, 7124, 3482, 2420, 1>>, e |-> -55]>>,
    <<[neg |-> FALSE, m |-> <<4170, 2281, 4808, 5650, 1>>, e |-> -53], [neg |-> FALSE, m |-> <<4096, 1679, 3658, 2854, 1>>, e |-> -55]>>,
    <<[neg |-> FALSE, m |-> <<3966, 3991, 6689, 5559, 1>>, e |-> -53], [neg |-> FALSE, m |-> <<4096, 199, 4937, 3285, 1>>, e |-> -55]>>,
    <<[neg |-> FALSE, m |-> <<7586, 2817, 1868, 5470, 1>>, e |-> -53], [neg |-> FALSE, m |-> <<4096, 820, 7739, 3713, 1>>, e |-> -55]>>,
    <<[neg |-> FALSE, m |-> <<6311, 7834, 6543, 5381, 1>>, e |-> -53], [neg |-> FALSE, m |-> <<4096, 2263, 4157, 4139, 1>>, e |-> -55]>>,
    <<[neg |-> FALSE, m |-> <<5003, 6219, 4155, 5294, 1>>, e |-> -53], [neg |-> FALSE, m |-> <<0, 1972, 2645, 4562, 1>>, e |-> -55]>>,
    <<[neg |-> FALSE, m |-> <<2855, 1370, 2724, 5208, 1>>, e |-> -53], [neg |-> FALSE, m |-> <<0, 6082, 3456, 4982, 1>>, e |-> -55]>>,
    <<[neg |-> FALSE, m |-> <<4817, 7327, 2052, 5123, 1>>, e |-> -53], [neg |-> FALSE, m |-> <<0, 352, 6983, 5399, 1>>, e |-> -55]>>,
    <<[neg |-> FALSE, m |-> <<7195, 1753, 1993, 5039, 1>>, e |-> -53], [neg |-> FALSE, m |-> <<4096, 14, 5207, 5814, 1>>, e |-> -55]>>,
    <<[neg |-> FALSE, m |-> <<4496, 3645, 2369, 4956, 1>>, e |-> -53], [neg |-> FALSE, m |-> <<0, 1510, 6643, 6226, 1>>, e |-> -55]>>,
    <<[neg |-> FALSE, m |-> <<3631, 5310, 3004, 4874, 1>>, e |-> -53], [neg |-> FALSE, m |-> <<0, 2627, 3445, 6636, 1>>, e |-> -55]>>,
    <<[neg |-> FALSE, m |-> <<2933, 5410, 3771, 4793, 1>>, e |-> -53], [neg |-> FALSE, m |-> <<0, 566, 3917, 7043, 1>>, e |-> -55]>>,
    <<[neg |-> FALSE, m |-> <<2104, 3898, 4519, 4713, 1>>, e |-> -53], [neg |-> FALSE, m |-> <<0, 1663, 110, 7448, 1>>, e |-> -55]>>,
    <<[neg |-> FALSE, m |-> <<4838, 6970, 5067, 4634, 1>>, e |-> -53], [neg |-> FALSE, m |-> <<4096, 188, 624, 7850, 1>>, e |-> -55]>>,
    <<[neg |-> FALSE, m |-> <<6045, 6142, 5283, 4556, 1>>, e |-> -53], [neg |-> FALSE, m |-> <<6144, 4349, 6916, 28, 1>>, e |-> -54]>>,
    <<[neg |-> FALSE, m |-> <<124, 7776, 5031, 4479, 1>>, e |-> -53], [neg |-> FALSE, m |-> <<4096, 5278, 3587, 227, 1>>, e |-> -54]>>,
    <<[neg |-> FALSE, m |-> <<782, 5622, 4150, 4403, 1>>, e |-> -53], [neg |-> FALSE, m |-> <<4096, 5171, 6887, 424, 1>>, e |-> -54]>>,
    <<[neg |-> FALSE, m |-> <<6139, 4376, 2538, 4328, 1>>, e |-> -53], [neg |-> FALSE, m |-> <<4096, 6750, 460, 621, 1>>, e |-> -54]>>,
    <<[neg |-> FALSE, m |-> <<6664, 1436, 43, 4254, 1>>, e |-> -53], [neg |-> FALSE, m |-> <<2048, 6426, 857, 816, 1>>, e |-> -54]>>,
    <<[neg |-> FALSE, m |-> <<7765, 809, 4730, 4180, 1>>, e |-> -53], [neg |-> FALSE, m |-> <<0, 1636, 8184, 1009, 1>>, e |-> -54]>>,
    <<[neg |-> FALSE, m |-> <<608, 4000, 101, 4108, 1>>, e |-> -53], [neg |-> FALSE, m |-> <<2048, 6939, 6133, 1202, 1>>, e |-> -54]>>,
    <<[neg |-> FALSE, m |-> <<809, 7941, 2392, 4036, 1>>, e |-> -53], [neg |-> FALSE, m |-> <<2048, 2213, 3074, 1394, 1>>, e |-> -54]>>,
    <<[neg |-> FALSE, m |-> <<5549, 7909, 3293, 3965, 1>>, e |-> -53], [neg |-> FALSE, m |-> <<0, 539, 7300, 1584, 1>>, e |-> -54]>>,
    <<[neg |-> FALSE, m |-> <<1474, 7353, 2713, 3895, 1>>, e |-> -53], [neg |-> FALSE, m |-> <<6144, 3936, 2459, 1774, 1>>, e |-> -54]>>,
    <<[neg |-> FALSE, m |-> <<1623, 4280, 508, 3826, 1>>, e |-> -53], [neg |-> FALSE, m |-> <<4096, 7545, 5118, 1962, 1>>, e |-> -54]>>,
    <<[neg |-> FALSE, m |-> <<4876, 7856, 4790, 3757, 1>>, e |-> -53], [neg |-> FALSE, m |-> <<0, 6527, 7096, 2149, 1>>, e |-> -54]>>>>
MINUS_ONE == [neg |-> TRUE, m |-> <<0, 0, 0, 0, 1>>, e |-> -52]
TWO_27 == [neg |-> FALSE, m |-> <<0, 0, 0, 0, 1>>, e |-> -25]

\* x is handled apart when 1.0 - 0x1p-4 <= x < 1.0 + 0x1.09p-4.
NearOne(x) ==
  \/ x.e = -53 /\ BigToInt(BigShr(x.m, 45)) >= 240
  \/ x.e = -52 /\ BigToInt(BigShr(x.m, 40)) < 4361
\* The locals of __log at their first values. Away from 1.0, x = 2^k * z
\* with z in [0.6875, 1.375), and i, from the first 7 binary digits of z
\* after the leading one, is the subinterval of z.
LogLocals(x) ==
  Only({[near |-> NearOne(x), x |-> Signed(x),
         z |-> [neg |-> FALSE, m |-> x.m, e |-> IF t >= 48 THEN -53 ELSE -52],
         kd |-> Only({[neg |-> k < 0, m |-> f.m, e |-> f.e] :
                      k \in {x.e + (IF t >= 48 THEN 53 ELSE 52)},
                      f \in {Float(IF x.e + (IF t >= 48 THEN 53 ELSE 52) < 0
                                   THEN -(x.e + (IF t >= 48 THEN 53 ELSE 52))
                                   ELSE x.e + (IF t >= 48 THEN 53 ELSE 52))}}),
         invc |-> LOG_TAB[((t + 80) % 128) + 1][1], logc |-> LOG_TAB[((t + 80) % 128) + 1][2],
         r |-> Signed(Zero), r2 |-> Signed(Zero), r3 |-> Signed(Zero), w |-> Signed(Zero),
         hi |-> Signed(Zero), lo |-> Signed(Zero), p |-> Signed(Zero), y |-> Signed(Zero),
         rhi |-> Signed(Zero),
         rlo |-> Signed(Zero)] :
        t \in {BigToInt(BigShr(x.m, 45)) - 128}})
\* The statements of __log away from 1.0, as the processor runs them: each
\* a * b + c of the source is one fused multiply-add.
LogStatement(v, k) ==
  CASE k = 1 -> [v EXCEPT !.r = Fma(v.z, v.invc, MINUS_ONE)]
    [] k = 2 -> [v EXCEPT !.w = Fma(v.kd, LN2HI, v.logc)]
    [] k = 3 -> [v EXCEPT !.hi = SAdd(v.w, v.r)]
    [] k = 4 -> [v EXCEPT !.lo = Fma(v.kd, LN2LO, SAdd(SSub(v.w, v.hi), v.r))]
    [] k = 5 -> [v EXCEPT !.r2 = SMul(v.r, v.r)]
    [] k = 6 -> [v EXCEPT !.r3 = SMul(v.r, v.r2)]
    [] k = 7 -> [v EXCEPT !.p =
                   Fma(Fma(v.r, LOG_A[5], LOG_A[4]), v.r2, Fma(v.r, LOG_A[3], LOG_A[2]))]
    [] k = 8 -> [v EXCEPT !.y = SAdd(Fma(v.r3, v.p, Fma(v.r2, LOG_A[1], v.lo)), v.hi)]
\* The statements for x near 1.0.
LogNearStatement(v, k) ==
  CASE k = 1 -> [v EXCEPT !.r = SAdd(v.x, MINUS_ONE)]
    [] k = 2 -> [v EXCEPT !.r2 = SMul(v.r, v.r)]
    [] k = 3 -> [v EXCEPT !.r3 = SMul(v.r, v.r2)]
    [] k = 4 -> [v EXCEPT !.p =
                   Fma(Fma(Fma(v.r3, LOG_B[11], Fma(v.r2, LOG_B[10], Fma(v.r, LOG_B[9], LOG_B[8]))),
                           v.r3, Fma(v.r2, LOG_B[7], Fma(v.r, LOG_B[6], LOG_B[5]))),
                       v.r3, Fma(v.r2, LOG_B[4], Fma(v.r, LOG_B[3], LOG_B[2])))]
    [] k = 5 -> [v EXCEPT !.rhi = Fma(Negated(TWO_27), v.r, Fma(v.r, TWO_27, v.r))]
    [] k = 6 -> [v EXCEPT !.rlo = SSub(v.r, v.rhi)]
    [] k = 7 -> [v EXCEPT !.hi = Fma(SMul(v.rhi, v.rhi), LOG_B[1], v.r)]
    [] k = 8 -> [v EXCEPT !.lo =
                   Fma(SMul(LOG_B[1], v.rlo), SAdd(v.r, v.rhi),
                       Fma(SMul(v.rhi, v.rhi), LOG_B[1], SSub(v.r, v.hi)))]
    [] k = 9 -> [v EXCEPT !.y = SAdd(v.hi, Fma(v.p, v.r3, v.lo))]
\* The statements k.. of the one or the other, in order.
RECURSIVE LogStatements(_, _)
LogStatements(v, k) ==
  Only({IF u.near THEN (IF k > 9 THEN u ELSE LogStatements(LogNearStatement(u, k), k + 1))
        ELSE (IF k > 8 THEN u ELSE LogStatements(LogStatement(u, k), k + 1)) : u \in {v}})
\* log(x) for a double x > 0 that is not subnormal
Log(x) ==
  Only({IF a.e = -52 /\ BigBits(a.m) = 53 /\ BigLow(a.m, 52) = <<>> THEN Signed(Zero)
        ELSE LogStatements(LogLocals(a), 1).y : a \in {x}})
\* -math.log(y) for a double 0 < y <= 1
NegLog(y) == Only({[m |-> v.m, e |-> v.e] : v \in {Log(y)}})

\* timedelta(seconds=x) for a double x >= 0, in microseconds: the whole
\* seconds, the whole microseconds of the fraction times 1e6, and what is
\* left of that product rounded to the even side.
TimedeltaMicros(x) ==
  Only({IF a.m = <<>> THEN 0
        ELSE IF a.e >= 0 THEN BigToInt(BigShl(a.m, a.e)) * 1000000
        ELSE Only({IF d.e >= 0 THEN whole + BigToInt(BigShl(d.m, d.e))
                   ELSE Only({IF BigLt(half, left) THEN acc + 1
                              ELSE IF BigLt(left, half) THEN acc
                              ELSE acc + (acc % 2) :
                          acc \in {whole + BigToInt(BigShr(d.m, -d.e))},
                          left \in {BigLow(d.m, -d.e)}, half \in {BigShl(<<1>>, -d.e - 1)}}) :
               whole \in {BigToInt(BigShr(a.m, -a.e)) * 1000000},
               d \in {FloatMul(Float(1000000), Round(BigLow(a.m, -a.e), a.e, FALSE))}}) :
        a \in {x}})

\* The doubles the generator names.
F_0_0 == Zero
F_1_0 == [m |-> <<0, 0, 0, 0, 1>>, e |-> -52]
\* The weights of SEVERITY (lines 29-33).
F_0_70 == [m |-> <<1638, 4915, 6553, 3276, 1>>, e |-> -53]
F_0_10 == [m |-> <<6554, 3276, 1638, 4915, 1>>, e |-> -56]
F_0_12 == [m |-> <<7864, 7208, 5242, 7536, 1>>, e |-> -56]
F_0_06 == [m |-> <<7864, 7208, 5242, 7536, 1>>, e |-> -57]
F_0_02 == [m |-> <<5243, 7536, 6225, 2293, 1>>, e |-> -58]
\* The weights of line 97 (0.1 is F_0_10) and the private_bias of lines 64, 91.
F_0_6 == [m |-> <<4915, 6553, 3276, 1638, 1>>, e |-> -53]
F_0_3 == [m |-> <<4915, 6553, 3276, 1638, 1>>, e |-> -54]
\* 1.2 and 1 / 1.2 of line 129
F_1_2 == [m |-> <<4915, 6553, 3276, 1638, 1>>, e |-> -52]
LAMBD == FloatDiv(Float(1), F_1_2)

\* random.random(): a multiple of 2^-53 in [0.0, 1.0)
Random(rng) ==
  Only({<<Round(BigAdd(BigShl(Big(d[1][1]), 26), Big(d[1][2])), -53, FALSE), d[2]>> :
        d \in {RandomBits(rng)}})
\* random.expovariate(lambd): -math.log(1.0 - random.random()) / lambd
expovariate(lambd, rng) ==
  Only({<<FloatDiv(NegLog(FloatSub(F_1_0, d[1])), lambd), d[2]>> : d \in {Random(rng)}})

\* Values of random.random() for the functions taken on their own: the
\* multiples of 2^-53 at and next to each running sum of the weights, to
\* each bias and to each tenth, the least and the greatest.
DRAWS ==
  {[m |-> <<>>, e |-> 0],
   [m |-> <<6544, 3276, 1638, 4915, 1>>, e |-> -56],
   [m |-> <<6552, 3276, 1638, 4915, 1>>, e |-> -56],
   [m |-> <<6560, 3276, 1638, 4915, 1>>, e |-> -56],
   [m |-> <<6548, 3276, 1638, 4915, 1>>, e |-> -55],
   [m |-> <<6552, 3276, 1638, 4915, 1>>, e |-> -55],
   [m |-> <<6556, 3276, 1638, 4915, 1>>, e |-> -55],
   [m |-> <<4914, 6553, 3276, 1638, 1>>, e |-> -54],
   [m |-> <<4916, 6553, 3276, 1638, 1>>, e |-> -54],
   [m |-> <<4918, 6553, 3276, 1638, 1>>, e |-> -54],
   [m |-> <<6552, 3276, 1638, 4915, 1>>, e |-> -54],
   [m |-> <<6554, 3276, 1638, 4915, 1>>, e |-> -54],
   [m |-> <<6556, 3276, 1638, 4915, 1>>, e |-> -54],
   [m |-> <<8190, 8191, 8191, 8191, 1>>, e |-> -54],
   [m |-> <<0, 0, 0, 0, 1>>, e |-> -53],
   [m |-> <<1, 0, 0, 0, 1>>, e |-> -53],
   [m |-> <<4914, 6553, 3276, 1638, 1>>, e |-> -53],
   [m |-> <<4915, 6553, 3276, 1638, 1>>, e |-> -53],
   [m |-> <<4916, 6553, 3276, 1638, 1>>, e |-> -53],
   [m |-> <<1637, 4915, 6553, 3276, 1>>, e |-> -53],
   [m |-> <<1638, 4915, 6553, 3276, 1>>, e |-> -53],
   [m |-> <<1639, 4915, 6553, 3276, 1>>, e |-> -53],
   [m |-> <<6552, 3276, 1638, 4915, 1>>, e |-> -53],
   [m |-> <<6553, 3276, 1638, 4915, 1>>, e |-> -53],
   [m |-> <<6554, 3276, 1638, 4915, 1>>, e |-> -53],
   [m |-> <<6555, 3276, 1638, 4915, 1>>, e |-> -53],
   [m |-> <<3275, 1638, 4915, 6553, 1>>, e |-> -53],
   [m |-> <<3276, 1638, 4915, 6553, 1>>, e |-> -53],
   [m |-> <<3277, 1638, 4915, 6553, 1>>, e |-> -53],
   [m |-> <<3278, 1638, 4915, 6553, 1>>, e |-> -53],
   [m |-> <<7535, 6225, 2293, 6881, 1>>, e |-> -53],
   [m |-> <<7536, 6225, 2293, 6881, 1>>, e |-> -53],
   [m |-> <<7537, 6225, 2293, 6881, 1>>, e |-> -53],
   [m |-> <<3931, 3604, 2621, 7864, 1>>, e |-> -53],
   [m |-> <<3932, 3604, 2621, 7864, 1>>, e |-> -53],
   [m |-> <<3933, 3604, 2621, 7864, 1>>, e |-> -53],
   [m |-> <<8190, 8191, 8191, 8191, 1>>, e |-> -53],
   [m |-> <<8191, 8191, 8191, 8191, 1>>, e |-> -53]}

\* ------------------------------------------------------------ the tables
SEVERITY ==
  <<[k |-> <<"I","N","F","O">>, w |-> F_0_70], [k |-> <<"N","O","T","I","C","E">>, w |-> F_0_10],
    [k |-> <<"W","A","R","N","I","N","G">>, w |-> F_0_12], [k |-> <<"E","R","R","O","R">>, w |-> F_0_06],
    [k |-> <<"C","R","I","T","I","C","A","L">>, w |-> F_0_02]>>
\* ACTIONS of line 36 (ACTIONS is a reserved word of TLA+).
ACTIONS_ == <<<<"A","C","C","E","P","T">>, <<"D","R","O","P">>, <<"R","E","J","E","C","T">>>>
\* weights=[0.6, 0.3, 0.1] of line 97
ACTION_WEIGHTS == <<F_0_6, F_0_3, F_0_10>>
PROTOCOLS == <<<<"T","C","P">>, <<"U","D","P">>, <<"I","C","M","P">>, <<"G","R","E">>, <<"E","S","P">>>>
INTERFACES == <<<<"e","t","h","0">>, <<"e","t","h","1">>, <<"w","a","n","0">>, <<"l","a","n","0">>, <<"d","m","z","0">>>>
REASONS_INFO ==
  <<<<"C","o","n","n","e","c","t","i","o","n"," ","e","s","t","a","b","l","i","s","h","e","d">>, <<"C","o","n","n","e","c","t","i","o","n"," ","c","l","o","s","e","d">>, <<"N","A","T"," ","t","r","a","n","s","l","a","t","i","o","n"," ","s","u","c","c","e","s","s">>,
    <<"P","o","l","i","c","y"," ","m","a","t","c","h","e","d">>, <<"S","e","s","s","i","o","n"," ","a","g","e","d"," ","o","u","t">>, <<"H","e","a","l","t","h"," ","c","h","e","c","k"," ","p","a","s","s","e","d">>>>
REASONS_WARN ==
  <<<<"S","u","s","p","i","c","i","o","u","s"," ","c","o","n","n","e","c","t","i","o","n"," ","r","a","t","e">>, <<"U","n","e","x","p","e","c","t","e","d"," ","p","a","c","k","e","t">>, <<"P","o","s","s","i","b","l","e"," ","p","o","l","i","c","y"," ","m","i","s","m","a","t","c","h">>,
    <<"M","a","l","f","o","r","m","e","d"," ","p","a","c","k","e","t">>, <<"I","P"," ","s","p","o","o","f","i","n","g"," ","s","u","s","p","e","c","t","e","d">>>>
REASONS_ERROR ==
  <<<<"P","o","l","i","c","y"," ","v","i","o","l","a","t","i","o","n">>, <<"I","n","t","r","u","s","i","o","n"," ","d","e","t","e","c","t","e","d">>, <<"C","o","n","f","i","g","u","r","a","t","i","o","n"," ","e","r","r","o","r">>,
    <<"R","e","s","o","u","r","c","e"," ","e","x","h","a","u","s","t","e","d">>, <<"A","u","t","h","e","n","t","i","c","a","t","i","o","n"," ","f","a","i","l","u","r","e">>, <<"F","i","r","e","w","a","l","l"," ","r","u","l","e"," ","c","o","n","f","l","i","c","t">>>>
\* The destination ports of line 93.
DEST_PORTS == <<22, 80, 443, 53, 8080, 3389, 5000, 514, 3306, 1433>>
\* nets of line 66: the network address's first two octets and the prefix.
NETS ==
  <<[a |-> 10, b |-> 0, prefix |-> 8], [a |-> 192, b |-> 168, prefix |-> 16],
    [a |-> 172, b |-> 16, prefix |-> 12]>>
HOST == <<"f","w","0","1",".","c","o","r","p",".","e","x","a","m","p","l","e",".","c","o","m">>

\* -------------------------------------------------------- weighted_choice
\* The loop of lines 56-61 on the draw r, from entry i with upto summed.
\* A walk that asks for a mass greater than the draw.
RECURSIVE WeightedWalkStrict(_, _, _, _)
WeightedWalkStrict(choices, r, i, upto) ==
  IF i > Len(choices) THEN choices[Len(choices)].k
  ELSE Only({IF FloatLt(r, s) THEN choices[i].k ELSE WeightedWalkStrict(choices, r, i + 1, s) :
             s \in {FloatAdd(upto, choices[i].w)}})

RECURSIVE WeightedWalk(_, _, _, _)
WeightedWalk(choices, r, i, upto) ==
  IF i > Len(choices) THEN choices[Len(choices)].k
  ELSE Only({IF FloatLe(r, s) THEN choices[i].k ELSE WeightedWalk(choices, r, i + 1, s) :
             s \in {FloatAdd(upto, choices[i].w)}})

\* weighted_choice(choices): one draw.
weighted_choice(choices, rng) ==
  Only({<<WeightedWalk(choices, d[1], 1, F_0_0), d[2]>> : d \in {Random(rng)}})

\* itertools.accumulate(weights)
RECURSIVE Accumulate(_, _)
Accumulate(w, i) == IF i = 1 THEN w[1] ELSE FloatAdd(Accumulate(w, i - 1), w[i])

\* random.choices(population, weights)[0] on the draw r: bisect_right of
\* r * total in the cumulative weights, over the indices 0..n-1.
ChoicesPickUnscaled(population, weights, r) ==
  Only({population[Cardinality({i \in 1..(Len(population) - 1) : FloatLe(Accumulate(weights, i), x)}) + 1] :
        x \in {r}})
ChoicesPick(population, weights, r) ==
  Only({population[Cardinality({i \in 1..(Len(population) - 1) : FloatLe(Accumulate(weights, i), x)}) + 1] :
        x \in {FloatMul(r, FloatAdd(Accumulate(weights, Len(population)), F_0_0))}})
\* random.choices(population, weights)[0]: one draw.
Choices(population, weights, rng) ==
  Only({<<ChoicesPick(population, weights, d[1]), d[2]>> : d \in {Random(rng)}})

\* ------------------------------------------------------------ random_ipv4
\* net.num_addresses
NumAddresses(net) == Pow2(32 - net.prefix)

\* IPv4Address(int(net.network_address) + offset) as its four octets. The
\* 32-bit sum is computed on the two 16-bit halves.
PrivateOctets(net, offset) ==
  LET lo == offset % 65536
      hi == net.a * 256 + net.b + (offset \div 65536)
  IN  <<hi \div 256, hi % 256, lo \div 256, lo % 256>>

\* str of an address / the f-string of line 79.
IpStr(o) ==
  IntToStr(o[1]) \o <<".">> \o IntToStr(o[2]) \o <<".">> \o IntToStr(o[3]) \o <<".">>
    \o IntToStr(o[4])

\* The test of line 78 that rejects a draw.
ReservedNoTen(a, b) == (a = 192 /\ b = 168) \/ (a = 172 /\ 16 <= b /\ b <= 31)
ReservedShort(a, b) == a = 10 \/ (a = 192 /\ b = 168) \/ (a = 172 /\ 16 <= b /\ b < 31)
Reserved(a, b) == a = 10 \/ (a = 192 /\ b = 168) \/ (a = 172 /\ 16 <= b /\ b <= 31)

\* Lines 66-71: two draws.
PrivateBranch(rng) ==
  Only({Only({<<IpStr(PrivateOctets(net[1], off[1])), off[2]>> :
              off \in {RandInt(net[2], 1, NumAddresses(net[1]) - 2)}}) :
        net \in {Choice(rng, NETS)}})

\* Lines 73-79: four draws a, b, c, d, again until the address is outside
\* the reserved blocks.
RECURSIVE PublicLoop(_)
PublicLoop(rng) ==
  Only({Only({Only({Only({IF ~Reserved(a[1], b[1])
                          THEN <<IpStr(<<a[1], b[1], c[1], d[1]>>), d[2]>>
                          ELSE PublicLoop(d[2]) :
    d \in {RandInt(c[2], 1, 254)}}) :
    c \in {RandInt(b[2], 0, 254)}}) :
    b \in {RandInt(a[2], 0, 254)}}) :
    a \in {RandInt(rng, 1, 254)}})

\* random_ipv4(private_bias)
random_ipv4(private_bias, rng) ==
  Only({IF FloatLt(r[1], private_bias) THEN PrivateBranch(r[2]) ELSE PublicLoop(r[2]) :
        r \in {Random(rng)}})

\* --------------------------------------------------- datetime, timedelta
\* A datetime of the generator carries its microseconds.
RECURSIVE AddDays(_, _)
AddDays(d, n) ==
  IF n = 0 THEN d
  ELSE IF d.day < DaysInMonth(d.year, d.month) THEN AddDays([d EXCEPT !.day = @ + 1], n - 1)
  ELSE IF d.month < 12 THEN AddDays([d EXCEPT !.day = 1, !.month = @ + 1], n - 1)
  ELSE AddDays([d EXCEPT !.day = 1, !.month = 1, !.year = @ + 1], n - 1)

\* An addition that loses the carry out of the microseconds.
AddMicrosNoCarry(d, us) == [d EXCEPT !.microsecond = (@ + us) % 1000000]

\* d + timedelta(microseconds=us), us >= 0
AddMicros(d, us) ==
  LET u == d.microsecond + us
      s == d.second + (u \div 1000000)
      m == d.minute + (s \div 60)
      h == d.hour + (m \div 60)
  IN  AddDays([d EXCEPT !.microsecond = u % 1000000, !.second = s % 60,
                        !.minute = m % 60, !.hour = h % 24], h \div 24)

MONTH_ABBR ==
  <<<<"J","a","n">>, <<"F","e","b">>, <<"M","a","r">>, <<"A","p","r">>, <<"M","a","y">>, <<"J","u","n">>, <<"J","u","l">>, <<"A","u","g">>, <<"S","e","p">>,
    <<"O","c","t">>, <<"N","o","v">>, <<"D","e","c">>>>

\* ts.strftime("%b %d %H:%M:%S")
format_syslog_ts(ts) ==
  MONTH_ABBR[ts.month] \o <<" ">> \o ZeroPad(IntToStr(ts.day), 2) \o <<" ">>
    \o ZeroPad(IntToStr(ts.hour), 2) \o <<":">> \o ZeroPad(IntToStr(ts.minute), 2)
    \o <<":">> \o ZeroPad(IntToStr(ts.second), 2)

\* ---------------------------------------------------------- make_log_line
\* The characters line 117 removes.
CONTROL_CHARS == {"\r", "\n", "\t", VT, "\f"}
Sanitize(message) == SelectSeq(message, LAMBDA ch : ch \notin CONTROL_CHARS)

\* The message of lines 110-114.
Message(sev, rule, reason, s_ip, d_ip, proto, s_pt, d_pt, action, bytes_cnt, pkts, in_if, out_if, uid) ==
  <<"%","F","W","-">> \o sev \o <<"-","*",".">> \o IntToStr(rule) \o <<":"," ">> \o reason \o <<";"," ","s","r","c","=">> \o s_ip
    \o <<" ","d","s","t","=">> \o d_ip \o <<" ","p","r","o","t","o","=">> \o proto \o <<" ","s","p","t","=">> \o IntToStr(s_pt)
    \o <<" ","d","p","t","=">> \o IntToStr(d_pt) \o <<" ","a","c","t","i","o","n","=">> \o action \o <<" ","b","y","t","e","s","=">>
    \o IntToStr(bytes_cnt) \o <<" ","p","k","t","s","=">> \o IntToStr(pkts) \o <<" ","r","u","l","e","=">> \o IntToStr(rule)
    \o <<" ","i","n","=">> \o in_if \o <<" ","o","u","t","=">> \o out_if \o <<" ","u","i","d","=">> \o uid

\* The locals of make_log_line that come from the random module, before
\* the first statement, with the generator state.
LineLocals(rng) ==
  [rng |-> rng, sev |-> <<>>, proto |-> <<>>, s_ip |-> <<>>, d_ip |-> <<>>, s_pt |-> 0,
   d_pt |-> 0, in_if |-> <<>>, out_if |-> <<>>, action |-> <<>>, bytes_cnt |-> 0,
   divisor |-> 0, pkts |-> 0, rule |-> 0, reason |-> <<>>]
\* name = the value of the draw d, in the locals a
Assign(a, name, d) == Only({[a EXCEPT ![name] = x[1], !.rng = x[2]] : x \in {d}})
\* The k-th statement of lines 88-107 that draws; a holds the locals and the
\* generator state before it. In the 11th, int(bytes_cnt / divisor) is the
\* whole quotient: the two are ints below 2^14, and the double nearest to
\* their quotient is below the next whole number.
LineStatement(a, k) ==
  CASE k = 1 -> Assign(a, "sev", weighted_choice(SEVERITY, a.rng))
    [] k = 2 -> Assign(a, "proto", Choice(a.rng, PROTOCOLS))
    [] k = 3 -> Assign(a, "s_ip", random_ipv4(F_0_6, a.rng))
    [] k = 4 -> Assign(a, "d_ip", random_ipv4(F_0_3, a.rng))
    [] k = 5 -> IF a.proto \in {<<"T","C","P">>, <<"U","D","P">>}
                THEN Assign(a, "s_pt", RandInt(a.rng, 1, 65535)) ELSE [a EXCEPT !.s_pt = 0]
    [] k = 6 -> IF a.proto \in {<<"T","C","P">>, <<"U","D","P">>}
                THEN Assign(a, "d_pt", Choice(a.rng, DEST_PORTS)) ELSE [a EXCEPT !.d_pt = 0]
    [] k = 7 -> Assign(a, "in_if", Choice(a.rng, INTERFACES))
    [] k = 8 -> Assign(a, "out_if", Choice(a.rng, INTERFACES))
    [] k = 9 -> Assign(a, "action", Choices(ACTIONS_, ACTION_WEIGHTS, a.rng))
    [] k = 10 -> Assign(a, "bytes_cnt", RandInt(a.rng, 0, 15000))
    [] k = 11 -> IF a.bytes_cnt > 0
                 THEN Only({[b EXCEPT !.pkts = Max(1, b.bytes_cnt \div b.divisor)] :
                            b \in {Assign(a, "divisor", RandInt(a.rng, 60, 120))}})
                 ELSE Assign(a, "pkts", RandInt(a.rng, 0, 4))
    [] k = 12 -> Assign(a, "rule", RandInt(a.rng, 100, 3999))
    [] k = 13 -> Assign(a, "reason",
                        IF a.sev \in {<<"I","N","F","O">>, <<"N","O","T","I","C","E">>} THEN Choice(a.rng, REASONS_INFO)
                        ELSE IF a.sev = <<"W","A","R","N","I","N","G">> THEN Choice(a.rng, REASONS_WARN)
                        ELSE Choice(a.rng, REASONS_ERROR))
\* The statements k..13, in order.
RECURSIVE LineStatements(_, _)
LineStatements(a, k) ==
  Only({IF k > 13 THEN v ELSE LineStatements(LineStatement(v, k), k + 1) : v \in {a}})

\* make_log_line(ts, host, pid) in the generator state rng: <<the line, the
\* generator state after it>>. uid is uuid.uuid4().hex[:8], which the caller
\* supplies: it does not come from the random module.
make_log_line(ts, host, pid, rng, uid) ==
  Only({LET message == Message(a.sev, a.rule, a.reason, a.s_ip, a.d_ip, a.proto, a.s_pt,
                               a.d_pt, a.action, a.bytes_cnt, a.pkts, a.in_if, a.out_if, uid)
            safe_message == Sanitize(message)
        IN  <<format_syslog_ts(ts) \o <<" ">> \o host \o <<" ","f","i","r","e","w","a","l","l","[">> \o IntToStr(pid)
                \o <<"]",":"," ">> \o safe_message, a.rng>> :
        a \in {LineStatements(LineLocals(rng), 1)}})

\* -------------------------------------------------- the generator's inputs
\* --count
Counts == (-1)..MaxCount
\* --seed (None: the random module seeds itself from the system)
Seeds == {None, Some(42), Some(123)}
\* random.seed(None) takes its key from os.urandom: 624 words of 32 bits.
UrandomKeys == [1..N -> UInt32]
\* The keys of it the generator is run with.
UrandomSample ==
  {[i \in 1..N |-> ToWord(i)] \o <<>>,
   [i \in 1..N |-> <<(i * i) % 65536, (7919 * i) % 65536>>] \o <<>>}
\* The states random.seed(None) may leave, for these keys.
EntropyStates == {[mt |-> init_by_array(key), mti |-> N] : key \in UrandomSample}
\* start_time (None: datetime.now())
Start1 == [year |-> 2025, month |-> 12, day |-> 31, hour |-> 23, minute |-> 59,
           second |-> 58, microsecond |-> 600000]
Start2 == [year |-> 2024, month |-> 2, day |-> 28, hour |-> 23, minute |-> 59,
           second |-> 59, microsecond |-> 0]
StartTimes == {None, Some(Start1), Some(Start2)}
\* What datetime.now() may return.
NowTimes == {[year |-> 2026, month |-> 10, day |-> 29, hour |-> 9, minute |-> 5,
              second |-> 7, microsecond |-> 123456]}
\* What uuid.uuid4().hex[:8] may return: it is drawn from the system's
\* entropy, not from the random module.
Uids == {<<"3","f","2","a","9","c","0","1">>, <<"b","7","e","4","d","2","1","0">>}
\* out_path
OutPath == <<"f","i","r","e","w","a","l","l","_","s","a","m","p","l","e",".","l","o","g">>

\* str(n) of an int.
Str(n) == IF n < 0 THEN <<"-">> \o IntToStr(-n) ELSE IntToStr(n)

\* --keyword
Keywords == {None, Some(<<"D","B">>)}
\* --start and --end, as main() hands them over: datetimes or None.
Bound1 == [year |-> 2025, month |-> 10, day |-> 20, hour |-> 10, minute |-> 0, second |-> 0]
DateBounds == {None, Some(Bound1)}
\* --output
Outputs == {None, Some(<<"s","u","m","m","a","r","y",".","t","x","t">>)}
\* The logfile argument.
FilePath == <<"a","p","p",".","l","o","g">>
\* The file at the output path before the first call: none, or an earlier
\* summary.
OutFiles == {None, Some(<<"=","=","=","=","="," ","L","O","G"," ","S","U","M","M","A","R","Y"," ","=","=","=","=","=","\n","F","i","l","e",":"," ","o","l","d",".","l","o","g">>)}
\* --burstiness, as the header's usage line gives it: absent or 0.3.
Burstiness == {None, Some(F_0_3)}

VARIABLES
  \* --- log_summarizer.py
  \* the input file (whether the path can be opened, and its lines) and the
  \* arguments
  input_exists, file_lines, keyword, start_date, end_date, output,
  \* the locals of summarize_log
  level_counts, error_messages, total_lines, first_ts, last_ts,
  \* where summarize_log is: "idle", "loop", "raised" or "done"; the line the
  \* file iterator gives next; the calls made so far; the times this call
  \* opened the input path. sum_pc is "failed" when the open raised.
  sum_pc, line_no, sum_runs, opens,
  \* the characters written to standard output, the file at the output path,
  \* and each call's outcome
  console, out_file, reports,
  \* --- firewall_log_generator.py
  \* the arguments of generate_logs, and the --burstiness of the header
  count, seed, start_time, burstiness,
  \* the state of the random module; the locals ts, pid and the loop counter
  rng, ts, pid, gen_i,
  \* where generate_logs is: "idle", "loop" or "done", or "usage" when the
  \* arguments were rejected; the calls made so far
  gen_pc, gen_runs,
  \* the file at out_path (None before the first open), what was printed,
  \* the file each finished call left, and the ts of each record of this call
  gen_file, gen_console, gen_files, emitted,
  \* --- random_ipv4 on its own
  \* where the call is: "idle", "private", "public" or "returned"; its
  \* private_bias; the last octets drawn; the address returned; whether the
  \* loop of this call has rejected a draw
  ip_pc, ip_bias, ip_draw, ip_result, ip_retried,
  \* --- most_common and weighted_choice on their own
  \* the counter handed to the top-5 rendering, the items listed, the lines
  top_pc, top_counter, top_listed, top_lines,
  \* the table and the draw of a selection, and the label selected
  wc_pc, wc_table, wc_r, wc_label

sumVars == <<input_exists, file_lines, keyword, start_date, end_date, output,
             level_counts, error_messages, total_lines, first_ts, last_ts, sum_pc,
             line_no, sum_runs, opens, console, out_file, reports>>
genVars == <<count, seed, start_time, burstiness, rng, ts, pid, gen_i, gen_pc,
             gen_runs, gen_file, gen_console, gen_files, emitted>>
ipVars == <<ip_pc, ip_bias, ip_draw, ip_result, ip_retried>>
pureVars == <<top_pc, top_counter, top_listed, top_lines, wc_pc, wc_table, wc_r, wc_label>>

vars == <<sumVars, genVars, ipVars, pureVars>>

\* print(text): the text and a line feed, on the stream.
StdoutWrite(stream, text) == stream \o text \o <<"\n">>

\* The locals of summarize_log as one record.
Locals ==
  [level_counts |-> level_counts, error_messages |-> error_messages,
   total_lines |-> total_lines, first_ts |-> first_ts, last_ts |-> last_ts,
   raised |-> sum_pc = "raised"]

SetLocals(a) ==
  /\ level_counts' = a.level_counts
  /\ error_messages' = a.error_messages
  /\ total_lines' = a.total_lines
  /\ first_ts' = a.first_ts
  /\ last_ts' = a.last_ts

\* The summarizer with its inputs chosen.
SumStart ==
  /\ input_exists \in BOOLEAN
  /\ file_lines \in (IF input_exists THEN InputFiles ELSE {<<>>})
  /\ keyword \in Keywords
  /\ start_date \in DateBounds
  /\ end_date \in DateBounds
  /\ output \in Outputs
  /\ level_counts = <<>> /\ error_messages = <<>> /\ total_lines = 0
  /\ first_ts = None /\ last_ts = None
  /\ sum_pc = "idle" /\ line_no = 1 /\ sum_runs = 0 /\ opens = 0
  /\ console = <<>> /\ reports = <<>>
  /\ out_file \in (IF input_exists THEN {None} ELSE OutFiles)

\* The summarizer on a longer file, with its arguments chosen.
LongStart ==
  /\ input_exists = TRUE
  /\ file_lines \in LongFiles
  /\ keyword \in Keywords
  /\ start_date \in DateBounds
  /\ end_date \in DateBounds
  /\ output \in Outputs
  /\ level_counts = <<>> /\ error_messages = <<>> /\ total_lines = 0
  /\ first_ts = None /\ last_ts = None
  /\ sum_pc = "idle" /\ line_no = 1 /\ sum_runs = 0 /\ opens = 0
  /\ console = <<>> /\ reports = <<>> /\ out_file = None

\* A call that keeps the aggregates of the call before it.
SumCallKeepsLocals ==
  /\ sum_pc \in {"idle", "done", "raised"}
  /\ sum_runs < MaxRuns
  /\ input_exists
  /\ sum_pc' = "loop" /\ line_no' = 1 /\ sum_runs' = sum_runs + 1 /\ opens' = 1
  /\ UNCHANGED <<level_counts, error_messages, total_lines, first_ts, last_ts>>
  /\ UNCHANGED <<input_exists, file_lines, keyword, start_date, end_date, output, console,
                 out_file, reports, genVars, ipVars, pureVars>>

\* main() calls summarize_log: lines 41-47, the locals and the open.
SumCall ==
  /\ sum_pc \in {"idle", "done", "raised"}
  /\ sum_runs < MaxRuns
  /\ input_exists
  /\ SetLocals(InitAgg)
  /\ sum_pc' = "loop" /\ line_no' = 1 /\ sum_runs' = sum_runs + 1 /\ opens' = 1
  /\ UNCHANGED <<input_exists, file_lines, keyword, start_date, end_date, output, console,
                 out_file, reports, genVars, ipVars, pureVars>>

\* A call that takes a path it cannot open for an empty file.
SumOpenFailsAsEmpty ==
  /\ sum_pc \in {"idle", "failed"}
  /\ sum_runs < MaxRuns
  /\ ~input_exists
  /\ SetLocals(InitAgg)
  /\ sum_pc' = "loop" /\ line_no' = 1 /\ sum_runs' = sum_runs + 1 /\ opens' = 1
  /\ UNCHANGED <<input_exists, file_lines, keyword, start_date, end_date, output, console,
                 out_file, reports, genVars, ipVars, pureVars>>

\* main() calls summarize_log on a path that cannot be opened: the locals of
\* lines 41-45, then the open of line 47 raises FileNotFoundError, which
\* nothing catches.
SumOpenFails ==
  /\ sum_pc \in {"idle", "failed"}
  /\ sum_runs < MaxRuns
  /\ ~input_exists
  /\ SetLocals(InitAgg)
  /\ sum_pc' = "failed" /\ line_no' = 1 /\ sum_runs' = sum_runs + 1 /\ opens' = 1
  /\ reports' = Append(reports, [kind |-> "FileNotFoundError", text |-> <<>>])
  /\ UNCHANGED <<input_exists, file_lines, keyword, start_date, end_date, output, console,
                 out_file, genVars, ipVars, pureVars>>

\* One iteration of the loop of lines 48-70; the ValueError of line 55 leaves
\* summarize_log and ends the process.
SumLine ==
  /\ sum_pc = "loop"
  /\ line_no <= Len(file_lines)
  /\ LET a == LoopBody(Locals, file_lines[line_no], keyword, start_date, end_date)
     IN  /\ SetLocals(a)
         /\ IF a.raised
            THEN /\ sum_pc' = "raised"
                 /\ reports' = Append(reports, [kind |-> "ValueError", text |-> <<>>])
                 /\ UNCHANGED line_no
            ELSE /\ line_no' = line_no + 1
                 /\ UNCHANGED <<sum_pc, reports>>
  /\ UNCHANGED <<input_exists, file_lines, keyword, start_date, end_date, output, sum_runs,
                 opens, console, out_file, genVars, ipVars, pureVars>>

\* Lines 73-95: the report, to the output path or to the console.
SumRender ==
  /\ sum_pc = "loop"
  /\ line_no > Len(file_lines)
  /\ LET summary_text == SummaryText(Locals, FilePath)
     IN  /\ IF ~IsNone(output) /\ Val(output) # <<>>
            THEN /\ out_file' = Some(summary_text)
                 /\ console' = StdoutWrite(console, <<"S","u","m","m","a","r","y"," ","w","r","i","t","t","e","n"," ","t","o"," ">> \o Val(output))
            ELSE /\ console' = StdoutWrite(console, summary_text)
                 /\ UNCHANGED out_file
         /\ reports' = Append(reports, [kind |-> "report", text |-> summary_text])
  /\ sum_pc' = "done"
  /\ UNCHANGED <<input_exists, file_lines, keyword, start_date, end_date, output, level_counts,
                 error_messages, total_lines, first_ts, last_ts, line_no, sum_runs, opens,
                 genVars, ipVars, pureVars>>


\* ------------------------------------------------------------ generate_logs
\* A write that leaves the line feed out.
WriteLineNoLF(f, line) == f \o RStrip(line)

\* f.write(line.rstrip() + "\n") of line 131, on the file content f.
WriteLine(f, line) == f \o RStrip(line) \o <<"\n">>

GenIdle ==
  /\ count = 0 /\ seed = None /\ start_time = None /\ burstiness = None
  /\ rng = None /\ ts = None /\ pid = 0 /\ gen_i = 0
  /\ gen_pc = "idle" /\ gen_runs = 0
  /\ gen_file = None /\ gen_console = <<>> /\ gen_files = <<>> /\ emitted = <<>>

\* The generator with its inputs chosen.
GenStart ==
  /\ count \in Counts /\ seed \in Seeds /\ start_time \in StartTimes
  /\ burstiness \in Burstiness
  /\ rng = None /\ ts = None /\ pid = 0 /\ gen_i = 0
  /\ gen_pc = "idle" /\ gen_runs = 0
  /\ gen_file = None /\ gen_console = <<>> /\ gen_files = <<>> /\ emitted = <<>>

\* main() calls generate_logs: lines 122-127, the seed, ts, pid and the open,
\* which empties the file.
GenCall ==
  /\ gen_pc \in {"idle", "done"}
  /\ gen_runs < MaxRuns
  /\ IsNone(burstiness)
  /\ \E seeded \in (IF IsNone(seed) THEN EntropyStates ELSE {RandomSeed(Val(seed))}) :
       \E d \in {RandInt(seeded, 1000, 9999)} : pid' = d[1] /\ rng' = d[2]
  /\ \E now \in NowTimes : ts' = Some(IF IsNone(start_time) THEN now ELSE Val(start_time))
  /\ gen_file' = Some(<<>>)
  /\ gen_i' = 0 /\ emitted' = <<>>
  /\ gen_pc' = "loop" /\ gen_runs' = gen_runs + 1
  /\ UNCHANGED <<count, seed, start_time, burstiness, gen_console, gen_files, sumVars, ipVars, pureVars>>

\* One iteration of the loop of lines 128-131.
GenLine ==
  /\ gen_pc = "loop"
  /\ gen_i < count
  /\ \E gap \in {expovariate(LAMBD, rng)} :
       \E now \in {AddMicros(Val(ts), TimedeltaMicros(gap[1]))} :
         \E uid \in Uids :
           \E line \in {make_log_line(now, HOST, pid, gap[2], uid)} :
             /\ ts' = Some(now)
             /\ rng' = line[2]
             /\ gen_file' = Some(WriteLine(Val(gen_file), line[1]))
             /\ emitted' = Append(emitted, now)
  /\ gen_i' = gen_i + 1
  /\ UNCHANGED <<count, seed, start_time, burstiness, pid, gen_pc, gen_runs, gen_console, gen_files,
                 sumVars, ipVars, pureVars>>

\* Lines 133-134: the loop is over, the file is closed.
GenDone ==
  /\ gen_pc = "loop"
  /\ gen_i >= count
  /\ gen_console' = StdoutWrite(gen_console, <<"W","r","o","t","e"," ">> \o Str(count) \o <<" ","l","o","g"," ","l","i","n","e","s"," ","t","o",":"," ">> \o OutPath)
  /\ gen_files' = Append(gen_files, Val(gen_file))
  /\ gen_pc' = "done"
  /\ UNCHANGED <<count, seed, start_time, burstiness, rng, ts, pid, gen_i, gen_runs, gen_file, emitted,
                 sumVars, ipVars, pureVars>>

\* main() with an option parse_args does not define (lines 137-142 define
\* --count, --out and --seed only): ArgumentParser.parse_args reports the
\* unrecognized argument and exits with status 2 before generate_logs is
\* called; nothing is written.
GenUsageError ==
  /\ gen_pc \in {"idle", "usage"}
  /\ gen_runs < MaxRuns
  /\ ~IsNone(burstiness)
  /\ gen_pc' = "usage" /\ gen_runs' = gen_runs + 1
  /\ UNCHANGED <<count, seed, start_time, burstiness, rng, ts, pid, gen_i, gen_file,
                 gen_console, gen_files, emitted, sumVars, ipVars, pureVars>>

\* -------------------------------------------------- random_ipv4 on its own
\* The call with the draws chosen freely instead of taken from the generator
\* state: every outcome the random module can give, on boundary values.
BIASES == {F_0_0, F_0_3, F_0_6, F_1_0}
OctetsA == {1, 9, 10, 11, 171, 172, 173, 191, 192, 193, 254}
OctetsB == {0, 15, 16, 17, 31, 32, 167, 168, 169, 254}
OctetsC == {0, 254}
OctetsD == {1, 254}
Offsets(net) ==
  {n \in {1, 2, 255, 256, 65535, 65536, NumAddresses(net) - 3, NumAddresses(net) - 2} :
     n <= NumAddresses(net) - 2}

IpIdle ==
  /\ ip_pc = "idle" /\ ip_bias = F_0_0 /\ ip_draw = <<>> /\ ip_result = None
  /\ ip_retried = FALSE

\* Line 65: the branch.
IpCall ==
  /\ ip_pc \in {"idle", "returned"}
  /\ \E bias \in BIASES, r \in DRAWS :
       /\ ip_bias' = bias
       /\ ip_pc' = IF FloatLt(r, bias) THEN "private" ELSE "public"
  /\ ip_draw' = <<>> /\ ip_result' = None /\ ip_retried' = FALSE
  /\ UNCHANGED <<sumVars, genVars, pureVars>>

\* Lines 66-71.
IpPrivate ==
  /\ ip_pc = "private"
  /\ \E i \in DOMAIN NETS : \E off \in Offsets(NETS[i]) :
       /\ ip_draw' = <<i, off>>
       /\ ip_result' = Some(IpStr(PrivateOctets(NETS[i], off)))
  /\ ip_pc' = "returned"
  /\ UNCHANGED <<ip_bias, ip_retried, sumVars, genVars, pureVars>>

\* Lines 74-79, a draw that is returned.
IpPublicAccept ==
  /\ ip_pc = "public"
  /\ \E a \in OctetsA, b \in OctetsB, c \in OctetsC, d \in OctetsD :
       /\ ~Reserved(a, b)
       /\ ip_draw' = <<a, b, c, d>>
       /\ ip_result' = Some(IpStr(<<a, b, c, d>>))
  /\ ip_pc' = "returned"
  /\ UNCHANGED <<ip_bias, ip_retried, sumVars, genVars, pureVars>>

\* Lines 74-78, a draw that is rejected: the loop goes round.
IpPublicReject ==
  /\ ip_pc = "public"
  /\ \E a \in OctetsA, b \in OctetsB, c \in OctetsC, d \in OctetsD :
       /\ Reserved(a, b)
       /\ ip_draw' = <<a, b, c, d>>
  /\ ip_retried' = TRUE
  /\ UNCHANGED <<ip_pc, ip_bias, ip_result, sumVars, genVars, pureVars>>

\* ------------------------------------- the top-5 rendering on its own
\* The signatures of the counters below, in the order they were first seen.
TopKeys == <<<<"s","1">>, <<"s","2">>, <<"s","3">>, <<"s","4">>, <<"s","5">>, <<"s","6">>, <<"s","7">>, <<"s","8">>>>
\* Counter(error_messages) of line 85: up to MaxKeys signatures, each
\* counted 1 to MaxSeen times.
TopCounters ==
  UNION {{[i \in 1..k |-> [key |-> TopKeys[i], n |-> f[i]]] : f \in [1..k -> 1..MaxSeen]} :
           k \in 0..MaxKeys}

PureIdle ==
  /\ top_pc = "idle" /\ top_counter = <<>> /\ top_listed = <<>> /\ top_lines = <<>>
  /\ wc_pc = "idle" /\ wc_table = <<>> /\ wc_r = F_0_0 /\ wc_label = <<>>

TopStart ==
  /\ top_pc = "idle" /\ top_counter \in TopCounters /\ top_listed = <<>> /\ top_lines = <<>>
  /\ wc_pc = "idle" /\ wc_table = <<>> /\ wc_r = F_0_0 /\ wc_label = <<>>

\* Lines 84-86 on the counter.
TopRender ==
  /\ top_pc = "idle"
  /\ top_listed' = most_common(top_counter, TopN)
  /\ top_lines' = TopLines(top_counter)
  /\ top_pc' = "rendered"
  /\ UNCHANGED <<top_counter, wc_pc, wc_table, wc_r, wc_label, sumVars, genVars, ipVars>>

\* ------------------------------------------- the selections on their own
\* The tables weighted_choice is given: SEVERITY, and tables whose mass
\* stops short of the draw.
WcTables == {SEVERITY, SubSeq(SEVERITY, 1, 2), SubSeq(SEVERITY, 1, 1), SubSeq(SEVERITY, 1, 4)}

\* Lines 55-61 with the draw chosen freely.
WcSeverity ==
  /\ \E table \in WcTables, r \in DRAWS :
       /\ wc_table' = table /\ wc_r' = r
       /\ wc_label' = WeightedWalk(table, r, 1, F_0_0)
  /\ wc_pc' = "severity"
  /\ UNCHANGED <<top_pc, top_counter, top_listed, top_lines, sumVars, genVars, ipVars>>

\* Line 97 with the draw chosen freely.
WcAction ==
  /\ \E r \in DRAWS :
       /\ wc_table' = [i \in DOMAIN ACTIONS_ |-> [k |-> ACTIONS_[i], w |-> ACTION_WEIGHTS[i]]]
       /\ wc_r' = r
       /\ wc_label' = ChoicesPick(ACTIONS_, ACTION_WEIGHTS, r)
  /\ wc_pc' = "action"
  /\ UNCHANGED <<top_pc, top_counter, top_listed, top_lines, sumVars, genVars, ipVars>>

\* ------------------------------------------------------ the specifications
SumIdle ==
  /\ input_exists = TRUE /\ opens = 0
  /\ file_lines = <<>> /\ keyword = None /\ start_date = None /\ end_date = None
  /\ output = None
  /\ level_counts = <<>> /\ error_messages = <<>> /\ total_lines = 0
  /\ first_ts = None /\ last_ts = None
  /\ sum_pc = "idle" /\ line_no = 1 /\ sum_runs = 0
  /\ console = <<>> /\ out_file = None /\ reports = <<>>

\* log_summarizer.py
SumInit == SumStart /\ GenIdle /\ IpIdle /\ PureIdle
SumNext == SumCall \/ SumOpenFails \/ SumLine \/ SumRender
SumSpec == SumInit /\ [][SumNext]_vars

\* log_summarizer.py on longer files
LongInit == LongStart /\ GenIdle /\ IpIdle /\ PureIdle
LongNext == SumCall \/ SumLine \/ SumRender
LongSpec == LongInit /\ [][LongNext]_vars

\* firewall_log_generator.py
GenInit == GenStart /\ SumIdle /\ IpIdle /\ PureIdle
GenNext == GenCall \/ GenLine \/ GenDone \/ GenUsageError
GenSpec == GenInit /\ [][GenNext]_vars

\* random_ipv4
IpInit == IpIdle /\ SumIdle /\ GenIdle /\ PureIdle
IpNext == IpCall \/ IpPrivate \/ IpPublicAccept \/ IpPublicReject
IpSpec == IpInit /\ [][IpNext]_vars
\* random_ipv4 with fair draws: the random module's draws are independent and
\* uniform, so a combination of octets that line 78 accepts, which every
\* iteration can draw, is drawn in the end.
IpFairSpec == IpSpec /\ WF_vars(IpPublicAccept)

\* Counter.most_common(5) and its rendering
TopInit == TopStart /\ SumIdle /\ GenIdle /\ IpIdle
TopNext == TopRender
TopSpec == TopInit /\ [][TopNext]_vars

\* weighted_choice and random.choices
WcInit == PureIdle /\ SumIdle /\ GenIdle /\ IpIdle
WcNext == WcSeverity \/ WcAction
WcSpec == WcInit /\ [][WcNext]_vars

\* =============================================================== the claims
\* ------------------------------------------------- helpers of the claims
\* The pieces of s between the occurrences of the character ch.
SplitOn(s, ch) ==
  LET cuts == {i \in DOMAIN s : s[i] = ch}
      n == Cardinality(cuts)
      Cut(k) == IF k = 0 THEN 0
                ELSE IF k = n + 1 THEN Len(s) + 1
                ELSE CHOOSE i \in cuts : Cardinality({j \in cuts : j <= i}) = k
  IN  [k \in 1..(n + 1) |-> SubSeq(s, Cut(k - 1) + 1, Cut(k) - 1)]

\* The lines of a file content: the text before each line feed, and the text
\* after the last one when there is any.
FileLines(f) ==
  LET pieces == SplitOn(f, "\n")
  IN  IF pieces[Len(pieces)] = <<>> THEN SubSeq(pieces, 1, Len(pieces) - 1) ELSE pieces

\* The aggregates of the pass over the same file with no filter at all.
Unfiltered == RunLoop(InitAgg, file_lines, None, None, None)

\* The datetime a line carries, None when it carries none.
StampOf(line) ==
  LET p == Parsed(line)
  IN  IF IsNone(p.timestamp) THEN None ELSE fromisoformat(ReplaceT(Val(p.timestamp)))

\* The line is kept out of the signature counts by --start, --end or --keyword.
Excluded(line) ==
  LET t == StampOf(line)
  IN  \/ ~IsNone(t) /\ ~IsNone(start_date) /\ DtLess(Val(t), Val(start_date))
      \/ ~IsNone(t) /\ ~IsNone(end_date) /\ DtLess(Val(end_date), Val(t))
      \/ ~IsNone(keyword) /\ ~Contains(StrLower(Strip(line)), StrLower(Val(keyword)))

\* The datetimes of a file's lines, in the order of the lines.
RECURSIVE Stamps(_)
Stamps(lines) ==
  IF lines = <<>> THEN <<>>
  ELSE (IF IsNone(StampOf(Head(lines))) THEN <<>> ELSE <<Val(StampOf(Head(lines)))>>)
         \o Stamps(Tail(lines))

\* Tokens 2 to 8 of the trimmed line, joined by single spaces.
ClaimSignature(line) ==
  LET t == Split(Strip(line))
  IN  Join(<<" ">>, SubSeq(t, 2, IF Len(t) < 8 THEN Len(t) ELSE 8))

\* The line is one the signature counts take in.
Counted(line) == Parsed(line).level \in {ERROR, CRITICAL} /\ ~Excluded(line)

\* Datetimes with their microseconds, compared.
TsLess(a, b) == LexLess(DtKey(a) \o <<a.microsecond>>, DtKey(b) \o <<b.microsecond>>)

\* The timestamp a line of the generated file carries: its first 15 characters.
CarriedStamp(line) == SubSeq(line, 1, 15)

\* The carried timestamp is the datetime d at whole seconds, without its year.
Carries(line, d) ==
  /\ SubSeq(line, 1, 3) = MONTH_ABBR[d.month]
  /\ StrToInt(SubSeq(line, 5, 6)) = d.day
  /\ StrToInt(SubSeq(line, 8, 9)) = d.hour
  /\ StrToInt(SubSeq(line, 11, 12)) = d.minute
  /\ StrToInt(SubSeq(line, 14, 15)) = d.second

\* The four octets of a dotted address.
Octets(text) ==
  LET parts == SplitOn(text, ".")
  IN  [i \in DOMAIN parts |-> StrToInt(parts[i])]

InBlocks(o) ==
  \/ o[1] = 10
  \/ o[1] = 192 /\ o[2] = 168
  \/ o[1] = 172 /\ o[2] \in 16..31

NetworkOrBroadcast(o) ==
  \/ o[1] = 10 /\ <<o[2], o[3], o[4]>> \in {<<0, 0, 0>>, <<255, 255, 255>>}
  \/ o[1] = 192 /\ o[2] = 168 /\ <<o[3], o[4]>> \in {<<0, 0>>, <<255, 255>>}
  \/ o[1] = 172 /\ <<o[2], o[3], o[4]>> \in {<<16, 0, 0>>, <<31, 255, 255>>}

\* ---------------------------------------------------------------------- C1
\* C1, as the specification states it: with the seed and start_time given,
\* every call of generate_logs with the same count leaves the same file, byte
\* for byte.  The correlation id comes from uuid.uuid4(), which random.seed
\* does not reach, so two calls can differ in it.
SeededRunsIdentical ==
  (~IsNone(seed) /\ ~IsNone(start_time)) =>
    \A i, j \in DOMAIN gen_files : gen_files[i] = gen_files[j]

\* ---------------------------------------------------------------------- C2
\* C2: whatever the keyword, start and end, the total line count and every
\* level counter of a finished pass, and the report lines that render them,
\* are those of the pass over the same file with no filter.
CountsIgnoreFilters ==
  sum_pc = "done" =>
    /\ total_lines = Unfiltered.total_lines
    /\ level_counts = Unfiltered.level_counts
    /\ SubSeq(SummaryLines(Locals, FilePath), 4, 6 + Len(level_counts))
         = SubSeq(SummaryLines(Unfiltered, FilePath), 4, 6 + Len(level_counts))

\* A finished pass over two lines whose keyword changed the signature counts.
CountsIgnoreFiltersWitness ==
  /\ sum_pc = "done" /\ total_lines = 2 /\ ~IsNone(keyword)
  /\ error_messages # Unfiltered.error_messages
  /\ \E i \in DOMAIN file_lines : Excluded(file_lines[i])

\* ---------------------------------------------------------------------- C3
\* C3: the first and last markers of a finished pass, and the time span line
\* rendered from them, are those of the pass with no filter; and when the
\* filters exclude every line the top-5 list is empty while the level counts
\* are those of the pass with no filter.
MarkersIgnoreFilters ==
  sum_pc = "done" =>
    /\ first_ts = Unfiltered.first_ts
    /\ last_ts = Unfiltered.last_ts
    /\ TimeSpanLine(Locals) = TimeSpanLine(Unfiltered)
    /\ (\A i \in DOMAIN file_lines : Excluded(file_lines[i])) =>
         /\ error_messages = <<>>
         /\ TopLines(error_messages) = <<>>
         /\ level_counts = Unfiltered.level_counts

\* A finished pass whose window excludes every line of a file that has a
\* timestamp and, unfiltered, a signature.
MarkersIgnoreFiltersWitness ==
  /\ sum_pc = "done" /\ file_lines # <<>>
  /\ \A i \in DOMAIN file_lines : Excluded(file_lines[i])
  /\ ~IsNone(end_date) /\ IsNone(keyword)
  /\ ~IsNone(first_ts) /\ Unfiltered.error_messages # <<>>

\* ---------------------------------------------------------------------- C4
\* C4: for a count of 0 or more, the file a finished call leaves has exactly
\* count line feeds, each ending a line that is not empty, nothing after the
\* last one, and no carriage return, tab, vertical tab or form feed; a count
\* of 0 leaves an empty file.
LineIntegrity ==
  (gen_pc = "done" /\ count >= 0) =>
    LET f == Val(gen_file)
    IN  /\ Cardinality({i \in DOMAIN f : f[i] = "\n"}) = count
        /\ Len(FileLines(f)) = count
        /\ f # <<>> => f[Len(f)] = "\n"
        /\ \A i \in DOMAIN f : f[i] = "\n" => (i > 1 /\ f[i - 1] # "\n")
        /\ \A i \in DOMAIN f : f[i] \notin {"\r", "\t", VT, "\f"}
        /\ count = 0 => f = <<>>

\* A finished call that wrote two lines.
LineIntegrityWitness ==
  /\ gen_pc = "done" /\ count = 2
  /\ Len(FileLines(Val(gen_file))) = 2
  /\ Len(Val(gen_file)) > 100

\* ---------------------------------------------------------------------- C5
\* C5: an address returned with private_bias 1.0 is inside 10.0.0.0/8,
\* 172.16.0.0/12 or 192.168.0.0/16 and is neither the network nor the
\* broadcast address of its block; an address returned with private_bias 0.0
\* is outside the three blocks.
AddressContainment ==
  ip_pc = "returned" =>
    LET o == Octets(Val(ip_result))
    IN  /\ Len(o) = 4
        /\ ip_bias = F_1_0 => (InBlocks(o) /\ ~NetworkOrBroadcast(o))
        /\ ip_bias = F_0_0 => ~InBlocks(o)

\* The last host of 172.16.0.0/12, returned with private_bias 1.0.
AddressContainmentWitness ==
  /\ ip_pc = "returned" /\ ip_bias = F_1_0
  /\ ip_result = Some(<<"1","7","2",".","3","1",".","2","5","5",".","2","5","4">>)

\* ---------------------------------------------------------------------- C6
\* C6, as the specification states it: no line content makes summarize_log
\* stop before the end of the file.  A line whose text has the shape of a
\* timestamp but is no calendar date (month 13) makes
\* datetime.fromisoformat raise ValueError, which nothing catches.
NeverAbortsOnContent == sum_pc # "raised"

\* ---------------------------------------------------------------------- C7
\* C7, as the specification states it: the markers of a finished pass are the
\* least and the greatest of the timestamps of the file.
SpanIsMinAndMax ==
  sum_pc = "done" =>
    \A i \in DOMAIN file_lines :
      ~IsNone(StampOf(file_lines[i])) =>
        /\ ~IsNone(first_ts) /\ ~DtLess(Val(StampOf(file_lines[i])), Val(first_ts))
        /\ ~IsNone(last_ts) /\ ~DtLess(Val(last_ts), Val(StampOf(file_lines[i])))

\* C7, amended: the markers of a finished pass are the timestamp of the first
\* line that has one and the timestamp of the last line that has one, in the
\* order of the file, and both are absent when no line has one; when the
\* timestamps of the file never decrease, the markers are the least and the
\* greatest timestamp.
SpanIsFirstAndLastSeen ==
  sum_pc = "done" =>
    LET s == Stamps(file_lines)
    IN  /\ s = <<>> => (first_ts = None /\ last_ts = None)
        /\ s # <<>> => (first_ts = Some(s[1]) /\ last_ts = Some(s[Len(s)]))
        /\ (\A i \in 1..(Len(s) - 1) : ~DtLess(s[i + 1], s[i])) =>
             \A i \in DOMAIN s :
               ~DtLess(s[i], Val(first_ts)) /\ ~DtLess(Val(last_ts), s[i])

\* A finished pass over a file whose second timestamp is before its first.
SpanIsFirstAndLastSeenWitness ==
  /\ sum_pc = "done"
  /\ Len(Stamps(file_lines)) = 2
  /\ DtLess(Stamps(file_lines)[2], Stamps(file_lines)[1])
  /\ DtLess(Val(last_ts), Val(first_ts))

\* ---------------------------------------------------------------------- C8
\* C8, as the specification states it: no two lines of a finished file carry
\* the same timestamp.
CarriedStampsNeverRepeat ==
  gen_pc = "done" =>
    LET lines == FileLines(Val(gen_file))
    IN  \A i, j \in DOMAIN lines :
          i # j => CarriedStamp(lines[i]) # CarriedStamp(lines[j])

\* C8, amended: the timestamp is advanced before each record by an interval
\* that is never negative, so the records' timestamps never decrease and the
\* first is not before start_time; each line carries its record's timestamp
\* at whole seconds and without the year.
TimestampsNeverDecrease ==
  gen_pc \in {"loop", "done"} =>
    LET lines == FileLines(Val(gen_file))
    IN  /\ Len(lines) = Len(emitted)
        /\ \A i \in DOMAIN emitted :
             /\ Carries(lines[i], emitted[i])
             /\ i > 1 => ~TsLess(emitted[i], emitted[i - 1])
        /\ (emitted # <<>> /\ ~IsNone(start_time)) =>
             ~TsLess(emitted[1], Val(start_time))
        /\ emitted # <<>> => ts = Some(emitted[Len(emitted)])

\* A finished file of two records, the second later than the first, whose
\* lines carry the same timestamp.
TimestampsNeverDecreaseWitness ==
  /\ gen_pc = "done" /\ Len(emitted) = 2
  /\ TsLess(emitted[1], emitted[2])
  /\ LET lines == FileLines(Val(gen_file))
     IN  CarriedStamp(lines[1]) = CarriedStamp(lines[2])

\* ---------------------------------------------------------------------- C9
\* C9: every call of summarize_log on the same file with the same arguments
\* has the same outcome, the report text byte for byte.
SummarizerIdempotent ==
  \A i, j \in DOMAIN reports : reports[i] = reports[j]

\* Two finished passes over a file that gives counts, markers and signatures.
SummarizerIdempotentWitness ==
  /\ sum_pc = "done" /\ Len(reports) = 2
  /\ reports[1].kind = "report" /\ reports[2].text # <<>>
  /\ total_lines = 2 /\ error_messages # <<>> /\ ~IsNone(first_ts)

\* --------------------------------------------------------------------- C10
\* C10: at every point of a pass, the count under each signature is the number
\* of lines read so far that have level ERROR or CRITICAL, pass the filters,
\* and have that signature as their tokens 2 to 8 joined by single spaces;
\* lines of another level and excluded lines are counted under none.
SignatureGrouping ==
  sum_pc # "raised" =>
    \A s \in {ClaimSignature(file_lines[i]) : i \in DOMAIN file_lines}
               \cup {error_messages[k].key : k \in DOMAIN error_messages} :
      Get(error_messages, s)
        = Cardinality({i \in 1..(line_no - 1) :
                         Counted(file_lines[i]) /\ ClaimSignature(file_lines[i]) = s})

\* A finished pass over two ERROR lines that differ in their first token and
\* in their ninth and share tokens 2 to 8: one signature, counted twice.
SignatureGroupingWitness ==
  /\ sum_pc = "done"
  /\ file_lines = <<LnA, LnB>>
  /\ error_messages = <<[key |-> <<"E","R","R","O","R"," ","D","b"," ","a"," ","b"," ","c"," ","d"," ","e">>, n |-> 2]>>

\* --------------------------------------------------------------------- C11
\* C11: a step of the loop on a line with no timestamp and no level token
\* adds one to the total line count and one to the UNKNOWN counter, and leaves
\* the first and last markers and the counter of every other level as they
\* were.
UnknownLineStep ==
  [][(/\ sum_pc = "loop" /\ line_no' = line_no + 1
      /\ IsNone(Parsed(file_lines[line_no]).timestamp)
      /\ Parsed(file_lines[line_no]).level = UNKNOWN)
     => (/\ total_lines' = total_lines + 1
         /\ Get(level_counts', UNKNOWN) = Get(level_counts, UNKNOWN) + 1
         /\ \A lv \in Range(LEVELS) : Get(level_counts', lv) = Get(level_counts, lv)
         /\ first_ts' = first_ts /\ last_ts' = last_ts)]_vars

\* A timestamped line, then a plain one, both read: UNKNOWN counted once and
\* the markers still those of the first line.
UnknownLineStepWitness ==
  /\ sum_pc = "loop" /\ file_lines = <<LnA, LnF>> /\ line_no = 3
  /\ total_lines = 2 /\ Get(level_counts, UNKNOWN) = 1 /\ Get(level_counts, ERROR) = 1
  /\ first_ts = StampOf(LnA) /\ last_ts = StampOf(LnA)

\* --------------------------------------------------------------------- C12
\* C12: when the input path cannot be opened, every call of summarize_log
\* ends in FileNotFoundError after one open, no call renders a report, and no
\* step changes the file at the output path or writes to standard output.
MissingInputIsFatal ==
  /\ [](~input_exists =>
          /\ sum_pc \in {"idle", "failed"}
          /\ opens <= 1
          /\ Len(reports) = sum_runs
          /\ \A i \in DOMAIN reports : reports[i].kind = "FileNotFoundError")
  /\ [][~input_exists => (out_file' = out_file /\ console' = console)]_vars

\* Two calls on a missing input with an output path that holds an earlier
\* summary.
MissingInputIsFatalWitness ==
  /\ ~input_exists /\ sum_pc = "failed" /\ sum_runs = 2 /\ opens = 1
  /\ ~IsNone(output) /\ ~IsNone(out_file)

\* --------------------------------------------------------------------- C13
\* C13, as the specification states it: the signature entries a pass holds
\* never number more than the top-N it reports, however many lines and
\* signatures the file has.  error_messages gets an entry for every distinct
\* signature (line 70) and nothing ever removes one.
SignatureEntriesBounded == Len(error_messages) <= TopN

\* --------------------------------------------------------------------- C14
\* C14, as the specification states it: what a call delivers is the rendered
\* report text, character for character, whether it goes to the output path
\* or to standard output.  print appends a line feed that the file does not
\* get.
SameContentEitherWay ==
  (sum_pc = "done" /\ sum_runs = 1) =>
    (IF IsNone(output) THEN console ELSE Val(out_file)) = SummaryText(Locals, FilePath)

\* --------------------------------------------------------------------- C15
\* C15, as the specification states it: a run given a burstiness is accepted
\* and goes on to generate.  parse_args defines no --burstiness, so the run
\* of the header's own usage line ends in a usage error.
BurstinessAccepted ==
  (~IsNone(burstiness) /\ gen_runs > 0) => gen_pc \in {"loop", "done"}

\* --------------------------------------------------------------------- C16
\* C16: a step of the loop on an ERROR or CRITICAL line leaves the signature
\* counts as they were if and only if the line has a timestamp before a
\* supplied start, or a timestamp after a supplied end, or lacks a supplied
\* keyword; a line of another level never changes them.
FilterRuleExact ==
  [][(sum_pc = "loop" /\ line_no' = line_no + 1)
     => LET line == file_lines[line_no]
            t    == StampOf(line)
            out  == \/ ~IsNone(t) /\ ~IsNone(start_date) /\ DtLess(Val(t), Val(start_date))
                    \/ ~IsNone(t) /\ ~IsNone(end_date) /\ DtLess(Val(end_date), Val(t))
                    \/ /\ ~IsNone(keyword)
                       /\ ~Contains(StrLower(Strip(line)), StrLower(Val(keyword)))
        IN  IF Parsed(line).level \in {ERROR, CRITICAL}
            THEN (error_messages' = error_messages) <=> out
            ELSE error_messages' = error_messages]_vars

\* A CRITICAL line stamped before the start supplied, left out, and then an
\* ERROR line whose timestamp is both the start and the end supplied, counted.
FilterRuleExactWitness ==
  /\ sum_pc = "loop" /\ line_no = 3 /\ file_lines = <<LnI, LnA>>
  /\ Parsed(LnI).level = CRITICAL /\ Parsed(LnA).level = ERROR
  /\ keyword = None
  /\ start_date = StampOf(LnA) /\ end_date = StampOf(LnA)
  /\ DtLess(Val(StampOf(LnI)), Val(start_date))
  /\ error_messages = <<[key |-> ShortMsg(Parsed(LnA).message), n |-> 1]>>

\* --------------------------------------------------------------------- C17
\* C17: the top-5 list has min(5, number of signatures) entries, each a
\* signature of the counter with its count; counts never increase down the
\* list; of two listed signatures with equal counts the one seen first comes
\* first; no signature left out has a greater count than a listed one.
TopFiveRanking ==
  top_pc = "rendered" =>
    LET c == top_counter
        l == top_listed
        Pos(e) == CHOOSE i \in DOMAIN c : c[i] = e
    IN  /\ Len(l) = (IF Len(c) < 5 THEN Len(c) ELSE 5)
        /\ \A i \in DOMAIN l : l[i] \in Range(c)
        /\ \A i, j \in DOMAIN l :
             i < j => \/ l[i].n > l[j].n
                      \/ l[i].n = l[j].n /\ Pos(l[i]) < Pos(l[j])
        /\ \A e \in Range(c) \ Range(l) : \A i \in DOMAIN l : e.n <= l[i].n
        /\ top_lines = [i \in DOMAIN l |->
                          <<" ", " ", "(">> \o IntToStr(l[i].n) \o <<"x", ")", " ">> \o l[i].key]

\* Six signatures: the last seen most often and listed first, equal counts
\* listed in the order seen, the first left out.
TopFiveRankingWitness ==
  /\ top_pc = "rendered" /\ Len(top_counter) = 6
  /\ top_listed[1] = top_counter[6] /\ top_listed[2] = top_counter[2]
  /\ top_listed[3] = top_counter[3] /\ top_counter[2].n = top_counter[3].n
  /\ top_counter[1] \notin Range(top_listed)

\* --------------------------------------------------------------------- C18
\* The cumulative mass of the first i entries of a table, summed in order.
RECURSIVE CumMass(_, _)
CumMass(table, i) ==
  IF i = 0 THEN F_0_0 ELSE FloatAdd(CumMass(table, i - 1), table[i].w)

\* The label the walk is to give on the draw r.
FirstReaching(table, r) ==
  LET reach == {i \in DOMAIN table : FloatLe(r, CumMass(table, i))}
  IN  IF reach = {} THEN table[Len(table)].k
      ELSE table[CHOOSE i \in reach : \A j \in reach : i <= j].k

\* C18: weighted_choice returns the first label of the table whose cumulative
\* mass is at least the draw, the last label when no mass reaches the draw,
\* and so always a label of the table.
WeightedSampling ==
  wc_pc = "severity" =>
    /\ wc_label = FirstReaching(wc_table, wc_r)
    /\ \E i \in DOMAIN wc_table : wc_label = wc_table[i].k
    /\ (\A i \in DOMAIN wc_table : FloatLt(CumMass(wc_table, i), wc_r)) =>
         wc_label = wc_table[Len(wc_table)].k

\* A draw that no cumulative mass of a two-entry table reaches.
WeightedSamplingWitness ==
  /\ wc_pc = "severity" /\ Len(wc_table) = 2
  /\ \A i \in DOMAIN wc_table : FloatLt(CumMass(wc_table, i), wc_r)
  /\ wc_label = wc_table[2].k

\* --------------------------------------------------------------------- C19
\* The action table of the claim.
ActionTable ==
  <<[k |-> <<"A","C","C","E","P","T">>, w |-> F_0_6], [k |-> <<"D","R","O","P">>, w |-> F_0_3],
    [k |-> <<"R","E","J","E","C","T">>, w |-> F_0_10]>>

\* C19: the action selected on a draw is the first of ACCEPT, DROP, REJECT
\* whose cumulative mass is at least the draw, which is what the walk of
\* weighted_choice gives on the action table for that draw.
ActionIsWeightedWalk ==
  wc_pc = "action" =>
    /\ wc_table = ActionTable
    /\ wc_label = FirstReaching(ActionTable, wc_r)
    /\ wc_label = WeightedWalk(ActionTable, wc_r, 1, F_0_0)

\* The draw 0.6, on the boundary of ACCEPT.
ActionIsWeightedWalkWitness ==
  /\ wc_pc = "action" /\ wc_r = F_0_6 /\ wc_label = <<"A","C","C","E","P","T">>

\* --------------------------------------------------------------------- C20
\* C20: with fair draws, a call in the public loop returns in the end, and
\* what it returns has a first and a last octet in 1..254, middle octets in
\* 0..254, and is outside the three reserved blocks.
PublicDrawReturns ==
  (ip_pc = "public") ~>
    (/\ ip_pc = "returned"
     /\ LET o == Octets(Val(ip_result))
        IN  /\ Len(o) = 4
            /\ o[1] \in 1..254 /\ o[4] \in 1..254
            /\ o[2] \in 0..254 /\ o[3] \in 0..254
            /\ ~InBlocks(o))

\* A public address returned after the loop rejected a draw.
PublicDrawReturnsWitness ==
  /\ ip_pc = "returned" /\ ip_retried /\ Len(ip_draw) = 4
  /\ ~InBlocks(Octets(Val(ip_result)))

\* --------------------------------------------------------------------- C21
\* The word w stands at s[i..] as a whole word: no word character on either
\* side of it.
WholeWordAt(s, i, w) ==
  /\ i + Len(w) - 1 <= Len(s)
  /\ SubSeq(s, i, i + Len(w) - 1) = w
  /\ (i = 1 \/ s[i - 1] \notin WordChar)
  /\ (i + Len(w) > Len(s) \/ s[i + Len(w)] \notin WordChar)

\* The level of a line: the leftmost whole word among the six level names,
\* UNKNOWN when the line has none.
ClaimLevel(line) ==
  LET hits == {h \in (1..Len(line)) \X DOMAIN LEVELS : WholeWordAt(line, h[1], LEVELS[h[2]])}
  IN  IF hits = {} THEN UNKNOWN
      ELSE LEVELS[(CHOOSE h \in hits : \A g \in hits : h[1] <= g[1])[2]]

\* The levels of the lines, each once, in the order of their first occurrence.
RECURSIVE FirstSeen(_, _)
FirstSeen(lines, seen) ==
  IF lines = <<>> THEN seen
  ELSE LET l == ClaimLevel(Head(lines))
       IN  FirstSeen(Tail(lines), IF l \in Range(seen) THEN seen ELSE Append(seen, l))

\* The lines of the last report, split at its line feeds.
ReportLines == SplitOn(reports[Len(reports)].text, "\n")

\* C21: in the report of a finished pass, the lines after "Log Level Counts:"
\* are one line per level that occurred on some line of the input, in the order
\* in which the levels first occurred, each with the number of lines of that
\* level, and the table ends there; the level of a line is its leftmost whole
\* word among INFO, WARN, WARNING, ERROR, DEBUG and CRITICAL, or UNKNOWN.
LevelTableOrder ==
  sum_pc = "done" =>
    LET seen == FirstSeen(file_lines, <<>>)
        n == Len(seen)
    IN  /\ Len(ReportLines) >= 8 + n
        /\ ReportLines[6] = <<"L","o","g"," ","L","e","v","e","l"," ","C","o","u","n","t","s",":">>
        /\ \A i \in 1..n :
             ReportLines[6 + i]
               = <<" "," ">> \o seen[i] \o <<":"," ">>
                   \o IntToStr(Cardinality({j \in DOMAIN file_lines :
                                              ClaimLevel(file_lines[j]) = seen[i]}))
        /\ ReportLines[7 + n] = <<>>
        /\ ReportLines[8 + n] = <<"T","o","p"," ","5"," ","R","e","p","e","a","t","e","d"," ","E","r","r","o","r"," ","M","e","s","s","a","g","e","s",":">>
        /\ \A i \in DOMAIN file_lines : Parsed(file_lines[i]).level = ClaimLevel(file_lines[i])

\* A finished pass over a line whose leftmost level word is INFO, with ERROR
\* further right, and then a WARNING line: INFO is listed before WARNING.
LevelTableOrderWitness ==
  /\ sum_pc = "done"
  /\ file_lines = <<LnH, LnG>>
  /\ level_counts = <<[key |-> <<"I","N","F","O">>, n |-> 1], [key |-> <<"W","A","R","N","I","N","G">>, n |-> 1]>>
  /\ ReportLines[7] = <<" "," ","I","N","F","O",":"," ","1">>
  /\ ReportLines[8] = <<" "," ","W","A","R","N","I","N","G",":"," ","1">>

\* --------------------------------------------------------------------- C22
\* The sum of the counts of a dict.
RECURSIVE SumCounts(_)
SumCounts(c) == IF c = <<>> THEN 0 ELSE Head(c).n + SumCounts(Tail(c))

\* The number of lines the loop has taken so far: those before line_no, and
\* the line that raised.
LinesTaken == IF sum_pc = "raised" THEN line_no ELSE line_no - 1

\* C22: at every point of a pass, whatever the filters, the level counters add
\* up to the total line count, and the total line count is the number of lines
\* the loop has taken.
LevelSumIsTotal ==
  /\ SumCounts(level_counts) = total_lines
  /\ total_lines = LinesTaken

\* The loop after the first of two lines, a line the start bound excludes.
LevelSumIsTotalWitness ==
  /\ sum_pc = "loop" /\ line_no = 2 /\ Len(file_lines) = 2
  /\ ~IsNone(start_date) /\ Excluded(file_lines[1])
  /\ total_lines = 1 /\ SumCounts(level_counts) = 1

\* --------------------------------------------------------------------- C23
\* No keyword, start or end was supplied.
NoFilter == IsNone(keyword) /\ IsNone(start_date) /\ IsNone(end_date)

\* C23: after every line the loop has finished, the signature counters add up
\* to at most the ERROR counter plus the CRITICAL counter, and to exactly that
\* when no keyword, start or end was supplied. (A line whose timestamp raises
\* is never finished: the pass ends inside it.)
SignaturesWithinErrors ==
  LET sigs == SumCounts(error_messages)
      errs == Get(level_counts, ERROR) + Get(level_counts, CRITICAL)
  IN  /\ sigs <= errs
      /\ (NoFilter /\ sum_pc # "raised") => sigs = errs

\* A finished pass with a keyword over an ERROR line that has it and a
\* CRITICAL line that has not: one signature counted, two such lines.
SignaturesWithinErrorsWitness ==
  /\ sum_pc = "done" /\ ~IsNone(keyword)
  /\ file_lines = <<LnA, LnD>>
  /\ SumCounts(error_messages) = 1
  /\ Get(level_counts, ERROR) + Get(level_counts, CRITICAL) = 2

\* --------------------------------------------------------------------- C24
\* The rendered top-5 lines of the last report: what follows its header.
ReportTopLines ==
  LET k == CHOOSE i \in DOMAIN ReportLines : ReportLines[i] = <<"T","o","p"," ","5"," ","R","e","p","e","a","t","e","d"," ","E","r","r","o","r"," ","M","e","s","s","a","g","e","s",":">>
  IN  SubSeq(ReportLines, k + 1, Len(ReportLines))

\* C24: an ERROR or CRITICAL line that passes the filters is counted under
\* the signature made of all its tokens after the first when it has fewer than
\* 8 tokens, so a line of one token is counted under the empty signature; and
\* the empty signature is listed in the top-5 list of the report when fewer
\* than 5 signatures outrank it.
EmptySignatureCounted ==
  sum_pc # "raised" =>
    /\ \A i \in 1..(line_no - 1) :
         LET t == Split(file_lines[i])
         IN  (Counted(file_lines[i]) /\ Len(t) < 8) =>
               /\ Len(t) >= 1
               /\ HasKey(error_messages, Join(<<" ">>, Tail(t)))
    /\ Get(error_messages, <<>>)
         = Cardinality({i \in 1..(line_no - 1) :
                          Counted(file_lines[i]) /\ Len(Split(file_lines[i])) = 1})
    /\ (sum_pc = "done" /\ HasKey(error_messages, <<>>) /\ Len(error_messages) <= TopN) =>
         (<<" "," ","(">> \o IntToStr(Get(error_messages, <<>>)) \o <<"x",")"," ">>) \in Range(ReportTopLines)

\* A finished pass over the bare word CRITICAL and an ERROR line of 9 tokens:
\* the empty signature is counted once and listed first in the top-5 list.
EmptySignatureCountedWitness ==
  /\ sum_pc = "done"
  /\ file_lines = <<LnD, LnA>>
  /\ Get(error_messages, <<>>) = 1
  /\ Len(error_messages) = 2
  /\ ReportTopLines[1] = <<" "," ","(","1","x",")"," ">>

====
